---- MODULE Spec2Model ----
(***************************************************************************)
(* Python_Anesthesia_Simulator: the mechanistic hemodynamic model          *)
(* (Hemo_meca_PD_model), the BIS and TOL models and the Patient            *)
(* orchestrator, as state machines.                                        *)
(*                                                                         *)
(* Real-valued quantities are carried on integer grids: concentrations in  *)
(* whole units, the volume ratio in units of 1/VOne, BIS in percent, TOL   *)
(* in percent.  The control structure (branches, flags, early raises,      *)
(* order of assignments) is the code's.                                    *)
(***************************************************************************)
EXTENDS Integers, Sequences, FiniteSets, TLC

VARIABLES
    hemo_pd,     \* Hemo_meca_PD_model instance: x, x_effect, flags, previous_cp_*
    hemo_call,   \* observation of the latest Hemo_meca_PD_model.one_step call
    bis_pd,      \* BIS_model instance: hill_model, c50p, c50r, gamma, beta, E0, Emax, c50p_init
    bis_call,    \* observation of the latest call on a stand-alone BIS_model
    pat,         \* Patient instance (its PK engines, PD models, outputs, recording)
    pat_call,    \* observation of the latest call on the Patient
    tci,         \* TCIController instance: x, target, infusion_rate, peak times, time
    tci_call,    \* observation of the latest TCIController.one_step call
    pat_b,       \* a second Patient instance
    rng,         \* the state of numpy's global random generator (np.random)
    met_bis,     \* a BIS trajectory, one sample per sampling time
    met_call,    \* observation of the latest compute_control_metrics call
    hemo_b       \* a second Hemo_meca_PD_model instance, stepped beside hemo_pd

hemoVars == <<hemo_pd, hemo_call>>
bisVars == <<bis_pd, bis_call>>
patVars == <<pat, pat_call>>
tciVars == <<tci, tci_call>>
twinVars == <<pat_b, rng>>
metVars == <<met_bis, met_call>>
pairVars == <<hemo_b>>
vars == <<hemo_pd, hemo_call, bis_pd, bis_call, pat, pat_call, tci, tci_call, pat_b, rng,
          met_bis, met_call, hemo_b>>

-----------------------------------------------------------------------------
(* Bounds of the model *)

\* largest plasma concentration handed to the hemodynamic model
MaxConc == 2

-----------------------------------------------------------------------------
(* Small helpers *)

\* a value that is not a number (a cell pandas leaves empty)
NaN == -999
\* an attribute that has not been assigned yet
Unset == -998
\* a vector attribute that has not been assigned yet
UnsetVector == <<>>

Sgn(a) == IF a > 0 THEN 1 ELSE IF a < 0 THEN -1 ELSE 0
Max2(a, b) == IF a >= b THEN a ELSE b
Min2(a, b) == IF a <= b THEN a ELSE b
Clamp(a, lo, hi) == Max2(lo, Min2(a, hi))

\* no compute_control_metrics call made yet
NoMetCall == [phase |-> "none", start_step |-> 0, end_step |-> 0, err |-> "none", ret |-> <<>>, n |-> 0]

\* Python floats, as whole numbers of a quantum that is a power of two:
\* FloatPrecision significant bits (53 in the build; 9 gives the same
\* roundings of 0.1, whose binary expansion has period 4), results rounded
\* to the nearest float, ties to even
FloatPrecision == 9
RECURSIVE BitLen(_)
BitLen(n) == IF n = 0 THEN 0 ELSE 1 + BitLen(n \div 2)
RoundHalfEven(n, d) ==
    IF 2 * (n % d) > d \/ (2 * (n % d) = d /\ (n \div d) % 2 = 1)
    THEN (n \div d) + 1
    ELSE n \div d
FloatRoundTo(n, drop) == IF drop <= 0 THEN n ELSE RoundHalfEven(n, 2^drop) * 2^drop
FloatRound(n) == FloatRoundTo(n, BitLen(n) - FloatPrecision)
\* a + b
FloatAdd(a, b) == FloatRound(a + b)
\* int(a / b) for a >= 0 < b: the quotient rounded to a float, then truncated
RECURSIVE QuotientShift(_, _, _)
QuotientShift(a, b, s) ==
    IF BitLen((a * 2^s) \div b) >= FloatPrecision THEN s ELSE QuotientShift(a, b, s + 1)
FloatDivIntAt(a, b, s) == RoundHalfEven(a * 2^s, b) \div 2^s
FloatDivInt(a, b) == IF a = 0 THEN 0 ELSE FloatDivIntAt(a, b, QuotientShift(a, b, 0))

-----------------------------------------------------------------------------
(* Hemo_meca_PD_model *)

\* v_ratio = 1 (no blood loss) on the grid of the volume ratio
VOne == 2

tpr_base == 2
sv_base == 2
hr_base == 2
\* initial values of the two acute-tolerance states (sv_base*ltde_sv, hr_base*ltde_hr)
ltde_sv0 == 1
ltde_hr0 == 1
abase_sv == sv_base + ltde_sv0
abase_hr == hr_base + ltde_hr0
TprMax == 4
SvMax == 4

HemoX0 == <<tpr_base, sv_base, hr_base, ltde_sv0, ltde_hr0>>

\* output_function: [tpr, sv, hr, map, co] of a state; the logarithmic
\* heart-rate correction of the stroke volume is carried by its sign.
OutputsOf(tpr, sv, hr) == <<tpr, sv, hr, tpr * sv * hr, hr * sv>>
output_function(x) ==
    OutputsOf(x[1], x[2] + x[4] - Sgn(x[3] + x[5] - abase_hr), x[3] + x[5])

\* nore_map_effect: emax * fsig(cp_nore): zero at zero, increasing
nore_map_effect(cp_nore) == IF cp_nore > 0 THEN 2 * cp_nore ELSE 0

\* Drug-free targets of the first three states (the k_in/k_out balance with the
\* drug effect terms): propofol and remifentanil lower resistance, propofol
\* lowers stroke volume.
TprTarget(cp_propo, cp_remi) ==
    tpr_base - (IF cp_propo > 0 \/ cp_remi > 0 THEN 1 ELSE 0)
SvTarget(cp_propo) == sv_base - (IF cp_propo > 0 THEN 1 ELSE 0)

\* continuous_dynamic: the sign of each derivative for state x and input
\* u = [cp_propo, cp_remi, map_wanted, sv_wanted], y being output_function(x).
DynamicOf(x, u, y) ==
    <<Sgn(TprTarget(u[1], u[2]) - x[1]) + (IF u[3] > 0 THEN Sgn(u[3] - y[4]) ELSE 0),
      Sgn(SvTarget(u[1]) - x[2]) + (IF u[4] > 0 THEN Sgn(u[4] - y[2]) ELSE 0),
      Sgn(hr_base - x[3]),
      IF u[1] > 0 THEN -Sgn(x[4]) ELSE 0,
      IF u[1] > 0 THEN -Sgn(x[5]) ELSE 0>>
continuous_dynamic(x, u) == DynamicOf(x, u, output_function(x))

\* control.input_output_response over one sampling interval from X0, the
\* input being interpolated from the previous to the current concentrations.
Advance(X0, dx) ==
    <<Clamp(X0[1] + dx[1], 1, TprMax),
      Clamp(X0[2] + dx[2], 1, SvMax),
      X0[3] + dx[3],
      Max2(0, X0[4] + dx[4]),
      Max2(0, X0[5] + dx[5])>>
Integrate(X0, prev_propo, prev_remi, cp_propo, cp_remi, map_wanted, sv_wanted) ==
    Advance(X0, continuous_dynamic(X0, <<Max2(prev_propo, cp_propo), Max2(prev_remi, cp_remi),
                                         map_wanted, sv_wanted>>))

\* pd_models.py:1169  (self.flag_nore_used or cp_nore > 0) and not self.flag_blood_loss
NoreBranch_noLatch(h, cp_nore) == cp_nore > 0 /\ ~h.flag_blood_loss
NoreBranch(h, cp_nore) ==
    (h.flag_nore_used \/ cp_nore > 0) /\ ~h.flag_blood_loss

\* pd_models.py:1190  (v_ratio < 1 or self.flag_blood_loss) and not self.flag_nore_used
BloodBranch_atOne(h, v_ratio) ==
    (v_ratio <= VOne \/ h.flag_blood_loss) /\ ~h.flag_nore_used
BloodBranch(h, v_ratio) ==
    (v_ratio < VOne \/ h.flag_blood_loss) /\ ~h.flag_nore_used

BranchOf(h, cp_nore, v_ratio) ==
    IF NoreBranch(h, cp_nore) THEN "nore"
    ELSE IF BloodBranch(h, v_ratio) THEN "blood"
    ELSE "decoupled"

\* the two setpoint rows of U handed to the second integration
SetpointInputs_both(branch, map_wanted, sv_wanted) ==
    IF branch = "decoupled" THEN <<0, 0>> ELSE <<map_wanted, sv_wanted>>
SetpointInputs(branch, map_wanted, sv_wanted) ==
    IF branch = "nore" THEN <<map_wanted, 0>>
    ELSE IF branch = "blood" THEN <<0, sv_wanted>>
    ELSE <<0, 0>>

\* the two print("Warning: ...") statements
Warned_silentBlood(branch, cp_nore, v_ratio) == branch = "nore" /\ v_ratio # VOne
Warned(branch, cp_nore, v_ratio) ==
    \/ branch = "nore" /\ v_ratio # VOne
    \/ branch = "blood" /\ cp_nore > 0

\* Hemo_meca_PD_model.one_step as a function of the instance h and the
\* arguments: the new instance, the returned output and what the call did.
\* x1 is the state after the first integration, sp the setpoints of the
\* second one and xe the state it ends in.
HemoStepResult(h, cp_propo, cp_remi, cp_nore, v_ratio, branch, x1, sp, xe) ==
    [pd |-> [x |-> x1,
             x_effect |-> xe,
             flag_nore_used |->
                 IF branch = "nore" /\ ~h.flag_blood_loss THEN TRUE
                 ELSE h.flag_nore_used,
             flag_blood_loss |->
                 IF branch = "blood" THEN TRUE ELSE h.flag_blood_loss,
             previous_cp_propo |-> cp_propo,
             previous_cp_remi |-> cp_remi,
             x_eq |-> h.x_eq, x_eq_w_nore |-> h.x_eq_w_nore],
     y |-> output_function(xe),
     call |-> [cp_propo |-> cp_propo, cp_remi |-> cp_remi,
               cp_nore |-> cp_nore, v_ratio |-> v_ratio,
               pre_nore |-> h.flag_nore_used, pre_blood |-> h.flag_blood_loss,
               branch |-> branch, map_wanted |-> sp[1], sv_wanted |-> sp[2],
               warned |-> Warned(branch, cp_nore, v_ratio)]]
HemoStepCoupled(h, cp_propo, cp_remi, cp_nore, v_ratio, branch, x1, sp) ==
    HemoStepResult(h, cp_propo, cp_remi, cp_nore, v_ratio, branch, x1, sp,
                   IF branch = "decoupled" THEN x1
                   ELSE Integrate(h.x_effect, h.previous_cp_propo, h.previous_cp_remi,
                                  cp_propo, cp_remi, sp[1], sp[2]))
HemoStepSetpoints(h, cp_propo, cp_remi, cp_nore, v_ratio, branch, x1, y1) ==
    HemoStepCoupled(h, cp_propo, cp_remi, cp_nore, v_ratio, branch, x1,
                    SetpointInputs(branch, y1[4] + nore_map_effect(cp_nore),
                                   (y1[2] * v_ratio) \div VOne))
HemoStepModes(h, cp_propo, cp_remi, cp_nore, v_ratio, x1) ==
    HemoStepSetpoints(h, cp_propo, cp_remi, cp_nore, v_ratio,
                      BranchOf(h, cp_nore, v_ratio), x1, output_function(x1))
Hemo_one_step_fromEffect(h, cp_propo, cp_remi, cp_nore, v_ratio) ==
    HemoStepModes(h, cp_propo, cp_remi, cp_nore, v_ratio,
                  Integrate(h.x_effect, h.previous_cp_propo, h.previous_cp_remi,
                            cp_propo, cp_remi, 0, 0))
Hemo_one_step(h, cp_propo, cp_remi, cp_nore, v_ratio) ==
    HemoStepModes(h, cp_propo, cp_remi, cp_nore, v_ratio,
                  Integrate(h.x, h.previous_cp_propo, h.previous_cp_remi,
                            cp_propo, cp_remi, 0, 0))

\* Hemo_meca_PD_model.__init__
HemoInit ==
    [x |-> HemoX0, x_effect |-> HemoX0,
     flag_nore_used |-> FALSE, flag_blood_loss |-> FALSE,
     previous_cp_propo |-> 0, previous_cp_remi |-> 0,
     x_eq |-> UnsetVector, x_eq_w_nore |-> UnsetVector]

NoCall ==
    [cp_propo |-> 0, cp_remi |-> 0, cp_nore |-> 0, v_ratio |-> VOne,
     pre_nore |-> FALSE, pre_blood |-> FALSE,
     branch |-> "none", map_wanted |-> 0, sv_wanted |-> 0, warned |-> FALSE]

Concs == 0..MaxConc
VRatios == {VOne - 1, VOne, VOne + 1}

-----------------------------------------------------------------------------
(* BIS_model *)

\* grid values of the two slopes of the Eleveld parameterization
GammaBelowC50 == 2
GammaAboveC50 == 1

\* BIS_model.__init__ for a named parameterization: c50p, c50r, gamma, beta,
\* E0, Emax on the integer grid.
BisInit(hill_model) ==
    IF hill_model = "Eleveld"
    THEN [hill_model |-> "Eleveld", c50p |-> 3, c50r |-> 0, gamma |-> GammaBelowC50,
          beta |-> 0, E0 |-> 100, Emax |-> 100, c50p_init |-> 3]
    ELSE IF hill_model = "Vanluchene"
    THEN [hill_model |-> "Vanluchene", c50p |-> 2, c50r |-> 0, gamma |-> 2,
          beta |-> 0, E0 |-> 96, Emax |-> 90, c50p_init |-> 2]
    ELSE [hill_model |-> "Bouillon", c50p |-> 4, c50r |-> 2, gamma |-> 1,
          beta |-> 0, E0 |-> 100, Emax |-> 100, c50p_init |-> 4]

RECURSIVE Pow(_, _)
Pow(a, n) == IF n = 0 THEN 1 ELSE a * Pow(a, n - 1)

\* the gamma compute_bis assigns (Eleveld, no interaction) or keeps
GammaForward(b, c_es_propo) ==
    IF b.c50r = 0 /\ b.hill_model = "Eleveld"
    THEN (IF c_es_propo <= b.c50p THEN GammaBelowC50 ELSE GammaAboveC50)
    ELSE b.gamma

\* the interaction term of compute_bis as a fraction <<numerator, denominator>>
Interaction(b, c_es_propo, c_es_remi) ==
    IF b.c50r = 0 THEN <<c_es_propo, b.c50p>>
    ELSE LET a == c_es_propo * b.c50r                  \* up * c50p * c50r
             s == c_es_propo * b.c50r + c_es_remi * b.c50p  \* (up + ur) * c50p * c50r
         IN  IF s = 0 THEN <<0, 1>>
             ELSE <<s * s * s, b.c50p * b.c50r * (s * s - b.beta * a * (s - a))>>

\* BIS_model.compute_bis: the instance after the call and the value returned
compute_bis(b, c_es_propo, c_es_remi) ==
    LET g  == GammaForward(b, c_es_propo)
        u  == Interaction(b, c_es_propo, c_es_remi)
        ng == Pow(u[1], g)
        dg == Pow(u[2], g)
    IN  [pd  |-> [b EXCEPT !.gamma = g],
         bis |-> b.E0 - (b.Emax * ng) \div (dg + ng)]

\* Patient.blood_volume_init (propo_pk.v1) on the grid of blood volumes
blood_volume_init == 4

\* BIS_model.update_param_blood_loss: c50p = c50p_init - 3/0.5*(1 - v_ratio),
\* the ratio being vol/vol_init
update_param_blood_loss(b, vol, vol_init) ==
    [b EXCEPT !.c50p = b.c50p_init - (6 * (vol_init - vol)) \div vol_init]

\* np.roots of x^3 + b x^2 + c x + d, on the grid
RootRange(b) == (0 - b.E0)..b.E0
RealRoots(p, range) ==
    {x \in range : x * x * x + p[1] * x * x + p[2] * x + p[3] = 0}
\* the roots the loop of inverse_hill accepts: np.real(el) == el and np.real(el) > 0
AcceptedRoots_anySign(p, range) == RealRoots(p, range)
AcceptedRoots(p, range) == {x \in RealRoots(p, range) : x > 0}

\* the gamma inverse_hill assigns (Eleveld, no interaction) or keeps
GammaInverse_strict(b, BIS) ==
    IF b.c50r = 0 /\ b.hill_model = "Eleveld"
    THEN (IF 2 * BIS > 2 * b.E0 - b.Emax THEN GammaBelowC50 ELSE GammaAboveC50)
    ELSE b.gamma
GammaInverse(b, BIS) ==
    IF b.c50r = 0 /\ b.hill_model = "Eleveld"
    THEN (IF 2 * BIS >= 2 * b.E0 - b.Emax THEN GammaBelowC50 ELSE GammaAboveC50)
    ELSE b.gamma

\* the g-th root of the fraction n/d when it is a grid value
HasRoot(n, d, g) == \E r \in 0..n : Pow(r, g) * d = n
RootOf(n, d, g) == CHOOSE r \in 0..n : Pow(r, g) * d = n

\* the inputs of inverse_hill the grid represents exactly
InverseHillOnGrid(b, BIS, c_es_remi) ==
    /\ b.Emax - b.E0 + BIS > 0
    /\ IF b.c50r = 0
       THEN BIS <= b.E0 /\ HasRoot(b.E0 - BIS, b.Emax - b.E0 + BIS, GammaInverse(b, BIS))
       ELSE /\ HasRoot(Max2(0, b.E0 - BIS), b.Emax - b.E0 + BIS, b.gamma)
            /\ c_es_remi % b.c50r = 0

\* the cubic inverse_hill builds in the interaction case
InverseHillCubic(b, BIS, c_es_remi) ==
    LET temp == RootOf(Max2(0, b.E0 - BIS), b.Emax - b.E0 + BIS, b.gamma)
        Yr   == c_es_remi \div b.c50r
    IN  <<3 * Yr - temp,
          3 * Yr * Yr - (2 - b.beta) * Yr * temp,
          Yr * Yr * Yr - Yr * Yr * temp>>

\* BIS_model.inverse_hill: the instance after the call, the exception raised
\* ("none" when the call returns) and the value returned
inverse_hill(b, BIS, c_es_remi) ==
    IF b.c50r = 0
    THEN LET g == GammaInverse(b, BIS)
         IN  [pd  |-> [b EXCEPT !.gamma = g],
              err |-> "none",
              cep |-> b.c50p * RootOf(b.E0 - BIS, b.Emax - b.E0 + BIS, g)]
    ELSE LET roots     == AcceptedRoots(InverseHillCubic(b, BIS, c_es_remi), RootRange(b))
             real_root == IF roots = {} THEN 0 ELSE CHOOSE x \in roots : TRUE
         IN  [pd  |-> b,
              err |-> "none",
              cep |-> real_root * b.c50p]

NoBisCall == [op |-> "none", BIS |-> 0, cp |-> 0, cr |-> 0, err |-> "none", ret |-> 0]

-----------------------------------------------------------------------------
(* TOL_model *)

tol_c50p == 2
tol_c50r == 1
tol_pre_intensity == 1

\* TOL_model.compute_tol, in percent (both slopes are 1 on the grid)
compute_tol(c_es_propo, c_es_remi) ==
    LET pn == tol_pre_intensity * tol_pre_intensity * tol_c50r   \* post_opioid = pn / pq
        pq == tol_c50r * tol_pre_intensity + c_es_remi
    IN  (100 * c_es_propo * pq) \div (tol_c50p * pn + c_es_propo * pq)

-----------------------------------------------------------------------------
(* CompartmentModel (pk_models.py): the PK engine of one drug *)

\* steady-state concentration per unit of infusion rate at baseline
PropoGain == 2
RemiGain == 1
NoreGain == 2

co_base == abase_hr * abase_sv
map_base == tpr_base * abase_sv * abase_hr

\* CompartmentModel.__init__: a zero state of the drug's length, baseline scalings
PkInit(n, gain) ==
    [x |-> [i \in 1..n |-> 0], gain |-> gain, co |-> co_base, bv |-> blood_volume_init]

\* control.dcgain(pk.continuous_sys): clearance follows the cardiac-output ratio
dcgain(pk) == (pk.gain * co_base) \div pk.co

\* x[k+1] = Ad x[k] + Bd u[k]: the plasma compartment moves towards the
\* steady state of the rate, the other compartments towards the plasma one
PkAdvance(pk, u) ==
    [i \in 1..Len(pk.x) |->
        IF i = 1 THEN pk.x[1] + Sgn(dcgain(pk) * u - pk.x[1])
        ELSE pk.x[i] + Sgn(pk.x[1] - pk.x[i])]

\* CompartmentModel.one_step(u): a negative rate is an input error
PkOneStep(pk, u) ==
    IF u < 0 THEN [pk |-> pk, err |-> "InvalidInputError"]
    ELSE [pk |-> [pk EXCEPT !.x = PkAdvance(pk, u)], err |-> "none"]

\* CompartmentModel.update_param_CO / update_param_blood_loss
update_param_CO_ignored(pk, co) == pk
update_param_CO(pk, co) == [pk EXCEPT !.co = co]
pk_update_param_blood_loss(pk, vol) == [pk EXCEPT !.bv = vol]

\* CompartmentModel.full_sim(u, x0 = zeros): the states at the sampling
\* instants 0 .. len(u)-1, the instance being left as it was
RECURSIVE PkFullSim(_, _)
PkFullSim(pk, u) ==
    IF Len(u) = 0 THEN <<>>
    ELSE LET zero == [pk EXCEPT !.x = [i \in 1..Len(pk.x) |-> 0]]
             RECURSIVE run(_, _)
             run(q, k) == IF k > Len(u) THEN <<>>
                          ELSE <<q.x>> \o run([q EXCEPT !.x = PkAdvance(q, u[k])], k + 1)
         IN  SubSeq(run(zero, 1), 1, Len(u))

-----------------------------------------------------------------------------
(* Patient *)

\* Patient.save_data: one more row holding the current variables
Row(p, inputs) ==
    [Time |-> p.Time, BIS |-> p.bis, TOL |-> p.tol, TPR |-> p.tpr, SV |-> p.sv,
     HR |-> p.hr, MAP |-> p.map, CO |-> p.co,
     u_propo |-> inputs[1], u_remi |-> inputs[2], u_nore |-> inputs[3],
     blood_volume |-> p.blood_volume,
     x_propo |-> p.propo_pk.x, x_remi |-> p.remi_pk.x, x_nore |-> p.nore_pk.x]
save_data(p) == [p EXCEPT !.dataframe = Append(@, Row(p, <<0, 0, 0>>))]

\* Patient.init_dataframe
init_dataframe(p) == [p EXCEPT !.Time = 0, !.dataframe = <<>>]

\* dataframe.loc[index, 'u_propo' / 'u_remi' / 'u_nore'] = ...: the row of
\* that label, or a new row with every other cell empty when there is none
EmptyRow ==
    [Time |-> NaN, BIS |-> NaN, TOL |-> NaN, TPR |-> NaN, SV |-> NaN,
     HR |-> NaN, MAP |-> NaN, CO |-> NaN,
     u_propo |-> NaN, u_remi |-> NaN, u_nore |-> NaN, blood_volume |-> NaN,
     x_propo |-> <<>>, x_remi |-> <<>>, x_nore |-> <<>>]
SetInputs(df, index, u) ==
    LET put(row) == [row EXCEPT !.u_propo = u[1], !.u_remi = u[2], !.u_nore = u[3]]
    IN  IF index + 1 \in 1..Len(df)
        THEN [df EXCEPT ![index + 1] = put(@)]
        ELSE Append(df, put(EmptyRow))

\* Patient.__init__
PatientInit(co_update, save_data_bool) ==
    LET p0 == [co_update |-> co_update, save_data_bool |-> save_data_bool,
               propo_pk |-> PkInit(6, PropoGain),
               remi_pk |-> PkInit(5, RemiGain),
               nore_pk |-> PkInit(1, NoreGain),
               bis_pd |-> BisInit("Bouillon"),
               hemo_pd |-> HemoInit,
               blood_volume |-> blood_volume_init,
               noise_index |-> 0,
               ts |-> 1,
               bis_noise |-> 0, noise_reads |-> {}, noise_seed |-> 0,
               bis |-> compute_bis(BisInit("Bouillon"), 0, 0).bis,
               tol |-> compute_tol(0, 0),
               tpr |-> tpr_base, sv |-> abase_sv, hr |-> abase_hr,
               map |-> map_base, co |-> co_base,
               u_propo_eq |-> Unset, u_remi_eq |-> Unset, u_nore_eq |-> Unset,
               c_blood_propo_eq |-> Unset, c_blood_remi_eq |-> Unset,
               c_blood_nore_eq |-> Unset, co_eq |-> Unset,
               Time |-> Unset, dataframe |-> <<>>]
    IN  IF save_data_bool THEN save_data(init_dataframe(p0)) ELSE p0

\* Patient.blood_loss: fluid_rate*ts in grid units of volume
blood_loss_volumeOnly(p, fluid_rate) ==
    [p EXCEPT !.blood_volume = p.blood_volume + fluid_rate]
blood_loss(p, fluid_rate) ==
    LET vol == p.blood_volume + fluid_rate
    IN  [p EXCEPT !.blood_volume = vol,
                  !.propo_pk = pk_update_param_blood_loss(@, vol),
                  !.remi_pk = pk_update_param_blood_loss(@, vol),
                  !.nore_pk = pk_update_param_blood_loss(@, vol),
                  !.bis_pd = update_param_blood_loss(@, vol, blood_volume_init)]

\* length of the cached block of filtered noise (1000 in the code)
NoiseBlockLen == 3

\* Patient.add_noise: sample = <<BIS noise read from the block, MAP noise, CO noise>>.
\* bis_noise is the serial number of the cached block (0 for the one drawn
\* at construction) and noise_reads the indices read from it so far.
ClipBis_noClip(v) == v
ClipBis(v) == Clamp(v, 0, 100)
NoiseRead(p, sample, fresh, idx) ==
    [p EXCEPT !.noise_index = idx,
              !.bis_noise = IF fresh THEN @ + 1 ELSE @,
              !.noise_reads = IF fresh THEN {idx} ELSE @ \cup {idx},
              !.bis = ClipBis(p.bis + sample[1]),
              !.map = p.map + sample[2],
              !.co = p.co + sample[3]]
add_noise_tol(p, sample) ==
    [NoiseRead(p, sample, p.noise_index + 1 >= NoiseBlockLen,
               IF p.noise_index + 1 >= NoiseBlockLen THEN 0 ELSE p.noise_index + 1)
        EXCEPT !.tol = @ + sample[1]]
add_noise(p, sample) ==
    IF p.noise_index + 1 >= NoiseBlockLen
    THEN NoiseRead(p, sample, TRUE, 0)
    ELSE NoiseRead(p, sample, FALSE, p.noise_index + 1)

\* Patient.one_step: the instance after the call, the exception raised
\* ("none" when it returns) and the tuple returned.  The steps are listed
\* last to first, each handing the instance it has built to the next one.
Patient_one_step(p, u_propo, u_remi, u_nore, blood_rate, dist, noise, sample) ==
    LET \* return (self.bis, self.co, self.map, self.tol)
        Return(p8) ==
            [p |-> p8, err |-> "none", ret |-> <<p8.bis, p8.co, p8.map, p8.tol>>]
        \* Save data
        Save(p7) ==
            Return(IF p7.save_data_bool
                   THEN save_data([p7 EXCEPT
                            !.dataframe = SetInputs(@, FloatDivInt(p7.Time, p7.ts),
                                                    <<u_propo, u_remi, u_nore>>),
                            !.Time = FloatAdd(p7.Time, p7.ts)])
                   ELSE p7)
        \* add noise
        Noise(p6) == Save(IF noise THEN add_noise(p6, sample) ELSE p6)
        \* update PK model with CO
        CoUpdate(p5) ==
            Noise(IF p5.co_update
                  THEN [p5 EXCEPT !.propo_pk = update_param_CO(@, p5.co),
                                  !.remi_pk = update_param_CO(@, p5.co),
                                  !.nore_pk = update_param_CO(@, p5.co)]
                  ELSE p5)
        \* blood loss effect
        Rescale(p4, q) ==
            [q EXCEPT !.map = (p4.map * q.blood_volume) \div blood_volume_init,
                      !.co = (p4.co * q.blood_volume) \div blood_volume_init]
        BloodLoss(p4) ==
            CoUpdate(IF blood_rate # 0 \/ p4.blood_volume # blood_volume_init
                     THEN Rescale(p4, blood_loss(p4, blood_rate))
                     ELSE p4)
        \* BIS, TOL, hemodynamics, disturbances
        Outputs(p3, rb, rh) ==
            BloodLoss([p3 EXCEPT !.bis_pd = rb.pd, !.hemo_pd = rh.pd,
                                 !.bis = rb.bis + dist[1],
                                 !.tol = compute_tol(p3.propo_pk.x[4], p3.remi_pk.x[4]),
                                 !.tpr = rh.y[1], !.sv = rh.y[2], !.hr = rh.y[3],
                                 !.map = rh.y[4] + dist[2],
                                 !.co = rh.y[5] + dist[3]])
        \* BIS, TOL from the effect-site component (index 3), hemodynamics
        \* from the plasma component (index 0)
        Models(p3) ==
            Outputs(p3,
                    compute_bis(p3.bis_pd, p3.propo_pk.x[4], p3.remi_pk.x[4]),
                    Hemo_one_step(p3.hemo_pd, p3.propo_pk.x[1], p3.remi_pk.x[1],
                                  p3.nore_pk.x[1], VOne))
        \* compute PK model: the three engines in turn, each one's exception
        \* leaving the engines before it advanced
        Pk(r1, r2, r3) ==
            IF r1.err # "none" THEN [p |-> p, err |-> r1.err, ret |-> <<>>]
            ELSE IF r2.err # "none"
            THEN [p |-> [p EXCEPT !.propo_pk = r1.pk], err |-> r2.err, ret |-> <<>>]
            ELSE IF r3.err # "none"
            THEN [p |-> [p EXCEPT !.propo_pk = r1.pk, !.remi_pk = r2.pk],
                  err |-> r3.err, ret |-> <<>>]
            ELSE Models([p EXCEPT !.propo_pk = r1.pk, !.remi_pk = r2.pk, !.nore_pk = r3.pk])
    IN  Pk(PkOneStep(p.propo_pk, u_propo), PkOneStep(p.remi_pk, u_remi),
           PkOneStep(p.nore_pk, u_nore))

\* Hemo_meca_PD_model.state_at_equilibrium: the root of continuous_dynamic for
\* constant inputs, started from x0; the tolerance states are stationary at 0
\* under propofol and where they are without it
HemoEquilibrium(x0, cp_propo, cp_remi, map_wanted) ==
    LET free == <<TprTarget(cp_propo, cp_remi), SvTarget(cp_propo), hr_base,
                  IF cp_propo > 0 THEN 0 ELSE x0[4],
                  IF cp_propo > 0 THEN 0 ELSE x0[5]>>
    IN  IF map_wanted > 0 /\ map_wanted > output_function(free)[4]
        THEN [free EXCEPT ![1] = @ + 1]
        ELSE free
\* what the call keeps: the two roots are stored as x_eq and x_eq_w_nore,
\* the output at the second one is returned
EqCommit_toState(h, x_no_nore, x_eq_out) ==
    [pd |-> [h EXCEPT !.x = x_no_nore, !.x_effect = x_eq_out,
                      !.x_eq = x_no_nore, !.x_eq_w_nore = x_eq_out],
     y |-> output_function(x_eq_out)]
EqCommit(h, x_no_nore, x_eq_out) ==
    [pd |-> [h EXCEPT !.x_eq = x_no_nore, !.x_eq_w_nore = x_eq_out],
     y |-> output_function(x_eq_out)]
EqWithNore(h, cp_propo_eq, cp_remi_eq, cp_nore_eq, x_no_nore) ==
    EqCommit(h, x_no_nore,
             IF cp_nore_eq > 0
             THEN HemoEquilibrium(h.x, cp_propo_eq, cp_remi_eq,
                                  output_function(x_no_nore)[4] + nore_map_effect(cp_nore_eq))
             ELSE x_no_nore)
state_at_equilibrium(h, cp_propo_eq, cp_remi_eq, cp_nore_eq) ==
    EqWithNore(h, cp_propo_eq, cp_remi_eq, cp_nore_eq,
               HemoEquilibrium(h.x, cp_propo_eq, cp_remi_eq, 0))

\* the search box of find_equilibrium on the grid (lbw = [0, 0], ubw = [50, 50])
EqConcs == 0..MaxConc

\* J of find_equilibrium for one candidate (BIS and TOL in percent)
EqCost(b, cep, cer, bis_target, tol_target) ==
    LET db == compute_bis(b, cep, cer).bis - bis_target
        dt == compute_tol(cep, cer) - tol_target
    IN  db * db + dt * dt

\* the minimiser a converged ipopt run returns
EqOptimum(b, bis_target, tol_target) ==
    CHOOSE w \in EqConcs \X EqConcs :
        \A v \in EqConcs \X EqConcs :
            EqCost(b, w[1], w[2], bis_target, tol_target)
                <= EqCost(b, v[1], v[2], bis_target, tol_target)

\* c50_nore_map * (w / (emax_nore_map - w)) ** (1 / gamma_nore_map): the
\* concentration whose nore_map_effect is w; not a number for w < 0
NoreConcFor(w) == IF w < 0 THEN NaN ELSE w \div 2

\* concentration / dcgain
RateFor(c, pk) == IF c = NaN THEN NaN ELSE c \div dcgain(pk)

\* Patient.find_equilibrium.  solved = whether ipopt converged, iterate = the
\* point it stopped at when it did not.  The steps are listed last to first.
find_equilibrium(p, bis_target, tol_target, map_target, solved, iterate) ==
    LET Return(p4) ==
            [p |-> p4, err |-> "none",
             ret |-> <<p4.u_propo_eq, p4.u_remi_eq, p4.u_nore_eq>>]
        \* set it back to normal
        Restore(p3) ==
            Return(IF p3.co_update
                   THEN [p3 EXCEPT !.propo_pk = update_param_CO(@, co_base),
                                   !.remi_pk = update_param_CO(@, co_base),
                                   !.nore_pk = update_param_CO(@, co_base)]
                   ELSE p3)
        \* get rate input
        Rates(p2) ==
            Restore([p2 EXCEPT !.u_propo_eq = RateFor(p2.c_blood_propo_eq, p2.propo_pk),
                               !.u_remi_eq = RateFor(p2.c_blood_remi_eq, p2.remi_pk),
                               !.u_nore_eq = RateFor(p2.c_blood_nore_eq, p2.nore_pk)])
        \* update pharmacokinetics model from co value
        CoUpdate(p1) ==
            Rates(IF p1.co_update
                  THEN [p1 EXCEPT !.propo_pk = update_param_CO(@, p1.co_eq),
                                  !.remi_pk = update_param_CO(@, p1.co_eq),
                                  !.nore_pk = update_param_CO(@, p1.co_eq)]
                  ELSE p1)
        Store(w_opt, c_nore, r1) ==
            CoUpdate([p EXCEPT !.c_blood_propo_eq = w_opt[1], !.c_blood_remi_eq = w_opt[2],
                               !.c_blood_nore_eq = c_nore, !.hemo_pd = r1.pd,
                               !.co_eq = r1.y[5]])
        WithNore(w_opt, c_nore, r0) ==
            Store(w_opt, c_nore, state_at_equilibrium(r0.pd, w_opt[1], w_opt[2], c_nore))
        \* Then compute the right nore concentration to meet the MAP target
        NoreConc(w_opt, r0) ==
            WithNore(w_opt, NoreConcFor(map_target - r0.y[4]), r0)
        \* first compute the effect of propofol and remifentanil on MAP
        Nore(w_opt) ==
            NoreConc(w_opt, state_at_equilibrium(p.hemo_pd, w_opt[1], w_opt[2], 0))
    \* w_opt = sol['x']: whatever the solver stopped at
    IN  Nore(IF solved THEN EqOptimum(p.bis_pd, bis_target, tol_target) ELSE iterate)

\* the propofol rates find_bis_equilibrium_with_ratio searches (lbw = 1e-3)
EqRates == 1..MaxConc

\* Patient.find_bis_equilibrium_with_ratio: the rate whose steady state, with
\* remifentanil at rp_ratio times it, has the BIS closest to the target
RatioCost(p, up, bis_target, rp_ratio) ==
    LET d == compute_bis(p.bis_pd, up * dcgain(p.propo_pk),
                         rp_ratio * up * dcgain(p.remi_pk)).bis - bis_target
    IN  d * d
find_bis_equilibrium_with_ratio(p, bis_target, rp_ratio, solved, iterate) ==
    LET Store(up) ==
            [p |-> [p EXCEPT !.u_propo_eq = up, !.u_remi_eq = rp_ratio * up],
             err |-> "none", ret |-> <<up, rp_ratio * up>>]
    IN  Store(IF solved
              THEN CHOOSE up \in EqRates :
                       \A v \in EqRates : RatioCost(p, up, bis_target, rp_ratio)
                                            <= RatioCost(p, v, bis_target, rp_ratio)
              ELSE iterate)

\* Patient.initialized_at_given_input.  The steps are listed last to first.
initialized_at_given_input(p, u_propo, u_remi, u_nore) ==
    LET \* if self.save_data_bool: a fresh table holding the outputs at the new state
        Record(p3, rb, rh) ==
            save_data([init_dataframe(p3) EXCEPT
                !.bis_pd = rb.pd, !.hemo_pd = rh.pd,
                !.bis = rb.bis,
                !.tol = compute_tol(p3.propo_pk.x[4], p3.remi_pk.x[4]),
                !.tpr = rh.y[1], !.sv = rh.y[2], !.hr = rh.y[3],
                !.map = rh.y[4], !.co = rh.y[5]])
        Save(p3) ==
            [p |-> IF p3.save_data_bool
                   THEN Record(p3,
                               compute_bis(p3.bis_pd, p3.propo_pk.x[4], p3.remi_pk.x[4]),
                               Hemo_one_step(p3.hemo_pd, p3.propo_pk.x[1], p3.remi_pk.x[1],
                                             p3.nore_pk.x[1], VOne))
                   ELSE p3,
             err |-> "none", ret |-> <<>>]
        \* PD hemo
        SetHemo(p2, r) ==
            Save([p2 EXCEPT !.hemo_pd = [r.pd EXCEPT !.x = <<r.y[1], r.y[2], r.y[3], 0, 0>>]])
        Hemo(p2) ==
            SetHemo(p2, state_at_equilibrium(p2.hemo_pd, p2.c_blood_propo_eq,
                                             p2.c_blood_remi_eq, p2.c_blood_remi_eq))
        \* if self.co_update: self.co_eq is read, assigned or not
        CoUpdate(p1) ==
            IF p1.co_update /\ p1.co_eq = Unset
            THEN [p |-> p1, err |-> "AttributeError", ret |-> <<>>]
            ELSE Hemo(IF p1.co_update
                      THEN [p1 EXCEPT !.propo_pk = update_param_CO(@, p1.co_eq),
                                      !.remi_pk = update_param_CO(@, p1.co_eq),
                                      !.nore_pk = update_param_CO(@, p1.co_eq)]
                      ELSE p1)
        \* c_blood_remi_eq is assigned twice, from u_remi and then from u_nore,
        \* and the remifentanil and norepinephrine states are both filled with it
        Pk(c_propo, c_remi) ==
            CoUpdate([p EXCEPT !.u_propo_eq = u_propo, !.u_remi_eq = u_remi,
                               !.u_nore_eq = u_nore,
                               !.c_blood_propo_eq = c_propo,
                               !.c_blood_remi_eq = c_remi,
                               !.propo_pk.x = [i \in 1..Len(p.propo_pk.x) |-> c_propo],
                               !.remi_pk.x = [i \in 1..Len(p.remi_pk.x) |-> c_remi],
                               !.nore_pk.x = [i \in 1..Len(p.nore_pk.x) |-> c_remi]])
    IN  Pk(u_propo * dcgain(p.propo_pk), u_nore * dcgain(p.nore_pk))

\* Patient.initialized_at_maintenance
initialized_at_maintenance(p, bis_target, tol_target, map_target, solved, iterate) ==
    LET Return(r2) ==
            IF r2.err # "none" THEN r2
            ELSE [p |-> r2.p, err |-> "none",
                  ret |-> <<r2.p.u_propo_eq, r2.p.u_remi_eq, r2.p.u_nore_eq>>]
        Initialize(r1) ==
            IF r1.err # "none" THEN r1
            ELSE Return(initialized_at_given_input(r1.p, r1.p.u_propo_eq, r1.p.u_remi_eq,
                                                   r1.p.u_nore_eq))
    IN  Initialize(find_equilibrium(p, bis_target, tol_target, map_target, solved, iterate))

\* an optional series argument of full_sim: None, or the series given
None == [given |-> FALSE, v |-> <<>>]
Some(v) == [given |-> TRUE, v |-> v]
Zeros(n) == [i \in 1..n |-> 0]

\* simulator.py:719-733: the series not given become [0]*len(a given one)
FillSeries(u_propo, u_remi, u_nore) ==
    LET up == IF ~u_propo.given
              THEN (IF ~u_remi.given THEN Zeros(Len(u_nore.v)) ELSE Zeros(Len(u_remi.v)))
              ELSE u_propo.v
        ur == IF ~u_remi.given THEN Zeros(Len(up)) ELSE u_remi.v
        un == IF ~u_nore.given THEN Zeros(Len(up)) ELSE u_nore.v
    IN  <<up, ur, un>>

\* simulator.py:734  len(u_propo) == len(u_remi) == len(u_nore)
SameLength_firstTwo(u) == Len(u[1]) = Len(u[2])
SameLength(u) == Len(u[1]) = Len(u[2]) /\ Len(u[2]) = Len(u[3])

\* Hemo_meca_PD_model.full_sim as Patient.full_sim calls it: cp_propo is the
\* slice x_propo[4:, :] (one entry per state row from row 4 on, each entry a
\* whole row), cp_remi and cp_nore are one row each.  The lengths are
\* compared first; then one_step is handed a row where it expects a number,
\* and building its input array U fails.
Hemo_full_sim(h, cp_propo, cp_remi, cp_nore) ==
    IF Len(cp_remi) # Len(cp_propo) \/ Len(cp_remi) # Len(cp_nore)
    THEN [pd |-> h, err |-> "ValueError", y |-> <<>>]
    ELSE IF Len(cp_propo) = 0
    THEN [pd |-> h, err |-> "none", y |-> <<>>]
    ELSE [pd |-> h, err |-> "ValueError", y |-> <<>>]

\* row `r` (counted from 0) of a state trajectory, over the sampling instants
TrajRow(traj, r) == [k \in 1..Len(traj) |-> traj[k][r + 1]]

\* Patient.full_sim: the instance after the call, the exception raised
\* ("none" when it returns), the series simulated and the table returned
Patient_full_sim(p, u_propo, u_remi, u_nore) ==
    LET u  == FillSeries(u_propo, u_remi, u_nore)
        p1 == init_dataframe(p)
        x_propo == PkFullSim(p1.propo_pk, u[1])
        x_remi  == PkFullSim(p1.remi_pk, u[2])
        x_nore  == PkFullSim(p1.nore_pk, u[3])
        bis == [k \in 1..Len(u[1]) |->
                   compute_bis(p1.bis_pd, x_propo[k][4], x_remi[k][4]).bis]
        tol == [k \in 1..Len(u[1]) |-> compute_tol(x_propo[k][4], x_remi[k][4])]
        \* x_propo[4:, :], x_remi[4, :], x_nore[0, :]
        cp_propo == [r \in 1..(Len(p1.propo_pk.x) - 4) |-> TrajRow(x_propo, r + 3)]
        rh == Hemo_full_sim(p1.hemo_pd, cp_propo, TrajRow(x_remi, 4), TrajRow(x_nore, 0))
        df == [k \in 1..Len(u[1]) |->
                   [Time |-> k - 1, BIS |-> bis[k], TOL |-> tol[k],
                    MAP |-> rh.y[k][4], CO |-> rh.y[k][5]]]
    IN  IF ~u_propo.given /\ ~u_remi.given /\ ~u_nore.given
        THEN [p |-> p, err |-> "ValueError", u |-> <<>>, ret |-> <<>>]
        ELSE IF ~SameLength(u)
        THEN [p |-> p, err |-> "ValueError", u |-> <<>>, ret |-> <<>>]
        ELSE IF rh.err # "none"
        THEN [p |-> [p1 EXCEPT !.hemo_pd = rh.pd], err |-> rh.err, u |-> u, ret |-> <<>>]
        ELSE [p |-> [p1 EXCEPT !.hemo_pd = rh.pd], err |-> "none", u |-> u, ret |-> df]

\* the trajectory Patient.one_step records for the rates u[1][k], u[2][k],
\* u[3][k], k = 1 .. n, from the patient p (noise off, no disturbance, no
\* blood loss)
RECURSIVE StepTrajectory(_, _, _)
StepTrajectory(p, u, k) ==
    IF k > Len(u[1]) THEN p.dataframe
    ELSE StepTrajectory(
             Patient_one_step(p, u[1][k], u[2][k], u[3][k], 0, <<0, 0, 0>>,
                              FALSE, <<0, 0, 0>>).p,
             u, k + 1)

\* what the last call on the patient was given and what came out of it
\* what the last call on the patient was given and what came out of it, and
\* how many calls have been made
NoPatCall == [op |-> "none", args |-> <<>>, u |-> <<>>, err |-> "none", ret |-> <<>>, n |-> 0]

-----------------------------------------------------------------------------
(* TCIController (tci_control.py) *)

\* sampling_time, control_time (s), drug_concentration, maximum_rate (ml/h)
sampling_time == 1
control_time == 2
drug_concentration == 1800
maximum_rate == 4
\* in mg/s or ug/s
infusion_max_perHour == maximum_rate * drug_concentration
infusion_max == (maximum_rate * drug_concentration) \div 3600

\* the discretized PK model of the controller (pk_models.py), with the
\* state x = <<plasma, effect site>>: x -> Ad x over one sampling time,
\* Ad_control x over one control time; Bd and Bd_control are the inputs'
TciAd(x) == <<x[1] - (x[1] + 2) \div 3, x[2] + (x[1] - x[2]) \div 2>>
TciBd == <<4, 1>>
TciAdControl(x) == TciAd(TciAd(x))
TciBdControl == <<TciAd(TciBd)[1] + TciBd[1], TciAd(TciBd)[2] + TciBd[2]>>
\* target_compartement = 'effect_site'
target_id == 2
TciZero == <<0, 0>>
TciPlus(x, r) == <<x[1] + TciBd[1] * r, x[2] + TciBd[2] * r>>

\* the pre-computation of __init__: the response Ce to an infusion of 1 held
\* for one control time, up to the first sample that decreases, and t_peak
RECURSIVE TciResponse(_, _, _)
TciLater(x, t, Ce, x1) ==
    IF x1[target_id] < x[target_id]
    THEN [Ce |-> Append(Ce, x1[target_id]), t_peak |-> t]
    ELSE TciResponse(x1, t + sampling_time, Append(Ce, x1[target_id]))
TciResponse(x, t, Ce) ==
    TciLater(x, t, Ce, IF t < control_time + 1 THEN TciPlus(TciAd(x), 1) ELSE TciAd(x))
TciCe == TciResponse(TciZero, sampling_time, <<>>).Ce
t_peak == TciResponse(TciZero, sampling_time, <<>>).t_peak

\* TCIController.__init__
TciInit ==
    [infusion_rate |-> 0, x |-> TciZero, target |-> 0, tpeak_0 |-> 0, tpeak_1 |-> 0, time |-> 0]

\* Ce_0: the trajectory from x without any infusion, t_peak/sampling_time samples
RECURSIVE TciFree(_, _)
TciFree(x, n) ==
    IF n = 0 THEN <<>> ELSE <<TciAd(x)[target_id]>> \o TciFree(TciAd(x), n - 1)

\* v[int(t/sampling_time) - 1] of a Python array: index -1 is the last entry
TciAt(v, t) == IF t \div sampling_time = 0 THEN v[Len(v)] ELSE v[t \div sampling_time]

\* (Ce_0 + rate*Ce).argmax() * sampling_time: the first index of the maximum
TciArgMax(Ce_0, rate) ==
    (CHOOSE i \in 1..Len(Ce_0) :
        /\ \A j \in 1..Len(Ce_0) : Ce_0[j] + rate * TciCe[j] <= Ce_0[i] + rate * TciCe[i]
        /\ \A j \in 1..(i - 1) : Ce_0[j] + rate * TciCe[j] < Ce_0[i] + rate * TciCe[i])
    * sampling_time - sampling_time

\* the iterations of the peak-time search are capped (500 in the code)
PeakIterMax == 5

\* the while loop of one_step; temp is infusion_rate_temp
RECURSIVE TciPeakSearch(_, _, _, _)
TciPeakStep_unlimited(c, Ce_0, counter, temp) ==
    TciPeakSearch([c EXCEPT !.infusion_rate = temp,
                            !.tpeak_1 = TciArgMax(Ce_0, temp)],
                  Ce_0, temp, counter + 1)
TciPeakStep(c, Ce_0, counter, temp) ==
    TciPeakSearch([c EXCEPT !.infusion_rate = Max2(Min2(temp, infusion_max), 0),
                            !.tpeak_1 = TciArgMax(Ce_0, temp)],
                  Ce_0, temp, counter + 1)
TciPeakSearch(c, Ce_0, temp, counter) ==
    IF c.tpeak_1 # c.tpeak_0 /\ counter < PeakIterMax
    THEN TciPeakStep([c EXCEPT !.tpeak_0 = c.tpeak_1], Ce_0, counter,
                     (c.target - TciAt(Ce_0, c.tpeak_1)) \div TciAt(TciCe, c.tpeak_1))
    ELSE IF counter = PeakIterMax
    THEN [c EXCEPT !.infusion_rate = Max2(Min2(temp, infusion_max), 0)]
    ELSE c

\* the last statements of one_step: the state is advanced with the rate
\* chosen, then the rate is limited and converted to ml/h
TciLimit_none(r) == r
TciLimit(r) == Max2(Min2(r, infusion_max), 0)
TciReturn(c) ==
    [c |-> c, ret |-> (c.infusion_rate * 3600) \div drug_concentration]
TciAdvance(c) ==
    TciReturn([c EXCEPT !.time = c.time + sampling_time,
                        !.x = TciPlus(TciAd(c.x), c.infusion_rate),
                        !.infusion_rate = TciLimit(c.infusion_rate)])

\* the control move, c.target being the new target already
TciFirstGuess(c, Ce_0, temp) ==
    TciPeakSearch([c EXCEPT !.infusion_rate = Min2(temp, infusion_max),
                            !.tpeak_1 = TciArgMax(Ce_0, temp)],
                  Ce_0, temp, 0)
TciMove(c, Ce_0) ==
    IF 100 * Ce_0[1] > 95 * c.target /\ 100 * Ce_0[1] < 105 * c.target
    THEN [c EXCEPT !.infusion_rate =
              Max2(0, (c.target - TciAdControl(c.x)[1]) \div TciBdControl[1])]
    ELSE IF Ce_0[control_time \div sampling_time + 1] > c.target
    THEN [c EXCEPT !.infusion_rate = 0]
    ELSE TciFirstGuess(c, Ce_0,
                       (c.target - TciAt(Ce_0, c.tpeak_0)) \div TciAt(TciCe, c.tpeak_0))

\* TCIController.one_step(target)
Tci_one_step(c, target) ==
    IF target # c.target
    THEN TciAdvance(TciMove([c EXCEPT !.tpeak_0 = t_peak, !.target = target],
                            TciFree(c.x, t_peak \div sampling_time)))
    ELSE IF c.time % control_time = 0
    THEN TciAdvance(TciMove(c, TciFree(c.x, t_peak \div sampling_time)))
    ELSE TciAdvance(c)

NoTciCall == [target |-> 0, ret |-> 0, n |-> 0]

-----------------------------------------------------------------------------
(* Specification of a stand-alone BIS_model *)

BisModels == {"Bouillon", "Vanluchene", "Eleveld"}
BisConcs == 0..(3 * MaxConc)
BisValues == {120, 100, 50, 25, 20}
\* blood volumes handed to update_param_blood_loss, out of blood_volume_init
BisVols == {blood_volume_init - 1, blood_volume_init, blood_volume_init + 1}

InitBIS ==
    /\ hemo_pd = HemoInit
    /\ hemo_call = NoCall
    /\ \E hm \in BisModels : bis_pd = BisInit(hm)
    /\ bis_call = NoBisCall
    /\ pat = PatientInit(FALSE, TRUE)
    /\ pat_call = NoPatCall
    /\ tci = TciInit
    /\ tci_call = NoTciCall
    /\ pat_b = PatientInit(FALSE, FALSE)
    /\ rng = 0
    /\ met_bis = <<>>
    /\ met_call = NoMetCall
    /\ hemo_b = HemoInit

BisComputeBis ==
    \E cp \in BisConcs, cr \in BisConcs :
        LET r == compute_bis(bis_pd, cp, cr)
        IN  /\ bis_pd' = r.pd
            /\ bis_call' = [op |-> "compute_bis", BIS |-> 0, cp |-> cp, cr |-> cr,
                            err |-> "none", ret |-> r.bis]
            /\ UNCHANGED <<hemoVars, patVars, tciVars, twinVars, metVars, pairVars>>

BisInverseHill ==
    \E BIS \in BisValues, cr \in BisConcs :
        /\ InverseHillOnGrid(bis_pd, BIS, cr)
        /\ LET r == inverse_hill(bis_pd, BIS, cr)
           IN  /\ bis_pd' = r.pd
               /\ bis_call' = [op |-> "inverse_hill", BIS |-> BIS, cp |-> 0, cr |-> cr,
                               err |-> r.err, ret |-> r.cep]
        /\ UNCHANGED <<hemoVars, patVars, tciVars, twinVars, metVars, pairVars>>

BisUpdateBloodLoss ==
    \E vol \in BisVols :
        /\ bis_pd' = update_param_blood_loss(bis_pd, vol, blood_volume_init)
        /\ bis_call' = [op |-> "update_param_blood_loss", BIS |-> 0, cp |-> vol, cr |-> 0,
                        err |-> "none", ret |-> 0]
        /\ UNCHANGED <<hemoVars, patVars, tciVars, twinVars, metVars, pairVars>>

NextBIS == BisComputeBis \/ BisInverseHill \/ BisUpdateBloodLoss

SpecBIS == InitBIS /\ [][NextBIS]_vars

-----------------------------------------------------------------------------
(* Specification of a BIS_model whose compute_bis is inverted *)

\* compute_bis(c_es_propo, c_es_remi) is a grid value
BisOnGrid(b, c_es_propo, c_es_remi) ==
    (b.Emax * Pow(Interaction(b, c_es_propo, c_es_remi)[1], GammaForward(b, c_es_propo)))
        % (Pow(Interaction(b, c_es_propo, c_es_remi)[2], GammaForward(b, c_es_propo))
           + Pow(Interaction(b, c_es_propo, c_es_remi)[1], GammaForward(b, c_es_propo))) = 0

\* inverse_hill(compute_bis(cp, cr), cr): r1 is what compute_bis gave
BisInverted(cp, cr, r1, r2) ==
    /\ bis_pd' = r2.pd
    /\ bis_call' = [op |-> "round_trip", BIS |-> r1.bis, cp |-> cp, cr |-> cr,
                    err |-> r2.err, ret |-> r2.cep]
BisForward(cp, cr, r1) ==
    /\ InverseHillOnGrid(r1.pd, r1.bis, cr)
    /\ BisInverted(cp, cr, r1, inverse_hill(r1.pd, r1.bis, cr))
BisRoundTrip ==
    \E cp \in BisConcs, cr \in BisConcs :
        /\ BisOnGrid(bis_pd, cp, cr)
        /\ BisForward(cp, cr, compute_bis(bis_pd, cp, cr))
        /\ UNCHANGED <<hemoVars, patVars, tciVars, twinVars, metVars, pairVars>>

NextRoundTrip == BisComputeBis \/ BisInverseHill \/ BisUpdateBloodLoss \/ BisRoundTrip

SpecRoundTrip == InitBIS /\ [][NextRoundTrip]_vars

(* C13: for every parameterization and all concentrations Cp, Cr >= 0,
   inverse_hill(compute_bis(Cp, Cr), Cr) returns Cp, Cp = 0 included, also
   after update_param_blood_loss has changed c50p. *)
C13_RoundTrip ==
    bis_call.op = "round_trip" => (bis_call.err = "none" /\ bis_call.ret = bis_call.cp)

\* a round trip from positive concentrations of both drugs, after a blood
\* loss had changed c50p
C13_Witness ==
    /\ bis_call.op = "round_trip"
    /\ bis_pd.c50r # 0
    /\ bis_pd.c50p # bis_pd.c50p_init
    /\ bis_call.cp > 0
    /\ bis_call.cr > 0
    /\ bis_call.ret = bis_call.cp

(* C14: for the Eleveld parameterization the gamma inverse_hill uses on
   BIS = compute_bis(Cp) is the gamma compute_bis used for Cp, for every
   Cp >= 0, Cp = c50p included, whatever calls were made before. *)
C14_SameSlopeRegime ==
    (bis_call.op = "round_trip" /\ bis_pd.hill_model = "Eleveld")
        => /\ bis_pd.gamma = GammaForward(bis_pd, bis_call.cp)
           /\ bis_pd.gamma = GammaInverse(bis_pd, bis_call.BIS)

\* a round trip at Cp = c50p exactly, which used the slope below c50p both ways
C14_Witness ==
    /\ bis_call.op = "round_trip"
    /\ bis_pd.hill_model = "Eleveld"
    /\ bis_call.cp = bis_pd.c50p
    /\ bis_pd.gamma = GammaBelowC50
    /\ bis_call.ret = bis_call.cp

\* a round trip above c50p, which used the other slope both ways
C14_WitnessAbove ==
    /\ bis_call.op = "round_trip"
    /\ bis_pd.hill_model = "Eleveld"
    /\ bis_call.cp > bis_pd.c50p
    /\ bis_pd.gamma = GammaAboveC50

-----------------------------------------------------------------------------
(* Claims about BIS_model, under SpecBIS *)

\* the cubic of the latest inverse_hill call has no positive real root
NoPositiveRoot ==
    RealRoots(InverseHillCubic(bis_pd, bis_call.BIS, bis_call.cr), RootRange(bis_pd))
        \cap (1..bis_pd.E0) = {}

(* C7: in the interaction case (c50r # 0) inverse_hill signals an error
   whenever the cubic has no positive real root, and never returns 0 (or any
   default) in that case. *)
C7_NoRootSignalsError ==
    (bis_call.op = "inverse_hill" /\ bis_pd.c50r # 0 /\ NoPositiveRoot)
        => (bis_call.err # "none" /\ bis_call.ret # 0)

-----------------------------------------------------------------------------
(* Specification of a stand-alone Hemo_meca_PD_model driven by one_step *)

InitHemo ==
    /\ hemo_pd = HemoInit
    /\ hemo_call = NoCall
    /\ bis_pd = BisInit("Bouillon")
    /\ bis_call = NoBisCall
    /\ pat = PatientInit(FALSE, TRUE)
    /\ pat_call = NoPatCall
    /\ tci = TciInit
    /\ tci_call = NoTciCall
    /\ pat_b = PatientInit(FALSE, FALSE)
    /\ rng = 0
    /\ met_bis = <<>>
    /\ met_call = NoMetCall
    /\ hemo_b = HemoInit

HemoOneStep ==
    \E cp_propo \in Concs, cp_remi \in Concs, cp_nore \in Concs, v_ratio \in VRatios :
        LET r == Hemo_one_step(hemo_pd, cp_propo, cp_remi, cp_nore, v_ratio)
        IN  /\ hemo_pd' = r.pd
            /\ hemo_call' = r.call
            /\ UNCHANGED <<bisVars, patVars, tciVars, twinVars, metVars, pairVars>>

NextHemo == HemoOneStep

SpecHemo == InitHemo /\ [][NextHemo]_vars

-----------------------------------------------------------------------------
(* Claims about Hemo_meca_PD_model.one_step, under SpecHemo *)

\* C1: the feedback mode is a one-way latch.  A step taken with cp_nore > 0
\* and no blood-loss latch sets flag_nore_used; one taken with v_ratio < 1,
\* cp_nore = 0 and no norepinephrine latch sets flag_blood_loss; no step
\* resets a flag; and from a latched state every step integrates in the
\* latched mode, never through the decoupled branch, whatever cp_nore and
\* v_ratio it is given.
C1_ModeIsOneWayLatch ==
    [][ /\ (hemo_pd.flag_nore_used =>
                hemo_pd'.flag_nore_used /\ hemo_call'.branch = "nore")
        /\ (hemo_pd.flag_blood_loss =>
                hemo_pd'.flag_blood_loss /\ hemo_call'.branch = "blood")
        /\ (~hemo_pd.flag_blood_loss /\ hemo_call'.cp_nore > 0 =>
                hemo_pd'.flag_nore_used)
        /\ (~hemo_pd.flag_nore_used /\ hemo_call'.cp_nore = 0
                /\ hemo_call'.v_ratio < VOne => hemo_pd'.flag_blood_loss)
      ]_vars

\* a step after the norepinephrine latch, with cp_nore = 0, and one after the
\* blood-loss latch with v_ratio back to 1
C1_Witness ==
    \/ hemo_call.pre_nore /\ hemo_call.cp_nore = 0 /\ hemo_call.branch = "nore"
    \/ hemo_call.pre_blood /\ hemo_call.v_ratio = VOne /\ hemo_call.branch = "blood"

\* C2: the two coupled modes are mutually exclusive: the two flags are never
\* both true, and the integrator never receives a non-zero MAP setpoint
\* together with a non-zero stroke-volume setpoint.
C2_ModesMutuallyExclusive ==
    /\ ~(hemo_pd.flag_nore_used /\ hemo_pd.flag_blood_loss)
    /\ ~(hemo_call.map_wanted # 0 /\ hemo_call.sv_wanted # 0)

\* the step in which both effects are requested for the first time
C2_Witness ==
    /\ ~hemo_call.pre_nore /\ ~hemo_call.pre_blood
    /\ hemo_call.cp_nore > 0 /\ hemo_call.v_ratio < VOne
    /\ hemo_call.branch = "nore" /\ hemo_call.map_wanted > 0

\* C3: a conflicting request is warned about and ignored.  With blood-loss
\* mode latched, a step with cp_nore > 0 warns, integrates x_effect with the
\* stroke-volume setpoint only (the result is the one cp_nore = 0 gives) and
\* leaves flag_nore_used false; with norepinephrine mode latched, a step with
\* v_ratio < 1 warns, integrates with the MAP setpoint only (the result is
\* the one v_ratio = 1 gives) and leaves flag_blood_loss false.
C3_ConflictWarnedAndIgnored ==
    [][ LET c == hemo_call'
        IN  /\ (hemo_pd.flag_blood_loss /\ c.cp_nore > 0 =>
                  /\ c.warned
                  /\ c.map_wanted = 0
                  /\ ~hemo_pd'.flag_nore_used
                  /\ hemo_pd'.x_effect =
                        Hemo_one_step(hemo_pd, c.cp_propo, c.cp_remi, 0,
                                      c.v_ratio).pd.x_effect)
            /\ (hemo_pd.flag_nore_used /\ c.v_ratio < VOne =>
                  /\ c.warned
                  /\ c.sv_wanted = 0
                  /\ ~hemo_pd'.flag_blood_loss
                  /\ hemo_pd'.x_effect =
                        Hemo_one_step(hemo_pd, c.cp_propo, c.cp_remi, c.cp_nore,
                                      VOne).pd.x_effect)
      ]_vars

\* both conflicts have happened: norepinephrine asked for under the
\* blood-loss latch, or blood loss asked for under the norepinephrine latch
C3_Witness ==
    \/ hemo_call.pre_blood /\ hemo_call.cp_nore > 0 /\ hemo_call.warned
          /\ hemo_call.sv_wanted > 0
    \/ hemo_call.pre_nore /\ hemo_call.v_ratio < VOne /\ hemo_call.warned
          /\ hemo_call.map_wanted > 0

-----------------------------------------------------------------------------
(* Specification of a Patient driven step by step and in batch *)

MaxCalls == 4
MaxBloodShift == 1

\* <<u_propo, u_remi, u_nore, blood_rate>> of a step: no drug, each drug, a
\* negative rate for each drug, bleeding and transfusion
StepInputs ==
    {<<0, 0, 0, 0>>, <<1, 0, 0, 0>>, <<1, 1, 0, 0>>, <<0, 0, 1, 0>>,
     <<-1, 0, 0, 0>>, <<1, -1, 0, 0>>, <<1, 1, -1, 0>>,
     <<1, 1, 0, -1>>, <<0, 0, 0, 1>>}
\* <<u_propo, u_remi, u_nore>> of a batch: nothing given, one, two or three
\* series given, of equal and of different lengths
SeriesInputs ==
    {<<None, None, None>>,
     <<Some(<<1>>), None, None>>, <<None, Some(<<1, 0>>), None>>,
     <<None, None, Some(<<0, 1, 1>>)>>,
     <<Some(<<1, 1>>), Some(<<0, 1>>), None>>,
     <<Some(<<1, 0, 1>>), Some(<<1, 1, 0>>), Some(<<0, 0, 1>>)>>,
     <<Some(<<1>>), Some(<<1, 0>>), None>>,
     <<Some(<<1>>), None, Some(<<1, 0>>)>>,
     <<None, Some(<<1, 0>>), Some(<<1>>)>>}
NoDist == <<0, 0, 0>>

\* the blood volume stays in the range where the model's parameters are defined
VolumeInRange(p, blood_rate) ==
    /\ p.blood_volume + blood_rate >= blood_volume_init - MaxBloodShift
    /\ p.blood_volume + blood_rate <= blood_volume_init + MaxBloodShift
\* the runs explored make at most MaxCalls calls
MoreCalls == pat_call.n < MaxCalls
Called(op, args, u, r) ==
    [op |-> op, args |-> args, u |-> u, err |-> r.err, ret |-> r.ret, n |-> pat_call.n + 1]

InitSim ==
    /\ hemo_pd = HemoInit
    /\ hemo_call = NoCall
    /\ bis_pd = BisInit("Bouillon")
    /\ bis_call = NoBisCall
    /\ \E co_update \in BOOLEAN, save_data_bool \in BOOLEAN :
           pat = PatientInit(co_update, save_data_bool)
    /\ pat_call = NoPatCall
    /\ tci = TciInit
    /\ tci_call = NoTciCall
    /\ pat_b = PatientInit(FALSE, FALSE)
    /\ rng = 0
    /\ met_bis = <<>>
    /\ met_call = NoMetCall
    /\ hemo_b = HemoInit

\* Patient.one_step(u_propo, u_remi, u_nore, blood_rate, noise=False)
PatOneStep ==
    \E in \in StepInputs :
        /\ MoreCalls
        /\ VolumeInRange(pat, in[4])
        /\ LET r == Patient_one_step(pat, in[1], in[2], in[3], in[4], NoDist, FALSE, NoDist)
           IN  /\ pat' = r.p
               /\ pat_call' = Called("one_step", <<in[1], in[2], in[3], in[4], NoDist, FALSE>>,
                                      <<>>, r)
        /\ UNCHANGED <<hemoVars, bisVars, tciVars, twinVars, metVars, pairVars>>

\* Patient.full_sim(u_propo, u_remi, u_nore)
PatFullSim ==
    \E in \in SeriesInputs :
        /\ MoreCalls
        /\ LET r == Patient_full_sim(pat, in[1], in[2], in[3])
           IN  /\ pat' = r.p
               /\ pat_call' = Called("full_sim", in, r.u, r)
        /\ UNCHANGED <<hemoVars, bisVars, tciVars, twinVars, metVars, pairVars>>

NextSim == PatOneStep \/ PatFullSim

SpecSim == InitSim /\ [][NextSim]_vars

\* the series an argument triple of full_sim gives, and whether the call is
\* acceptable: one series at least, all those given of one length
GivenLengths(args) == {Len(args[i].v) : i \in {j \in 1..3 : args[j].given}}
ValidSeries(args) == Cardinality(GivenLengths(args)) = 1

(* C4: without CO feedback, for the same input series and the same (fresh)
   initial state, the batch simulation completes, and its BIS, TOL, MAP and
   CO at every sampling instant are those the step-by-step simulation
   records. *)
C4_BatchAgreesWithSteps ==
    (/\ pat_call.op = "full_sim"
     /\ ValidSeries(pat_call.args)
     /\ pat_call.n = 1
     /\ ~pat.co_update)
        => /\ pat_call.err = "none"
           /\ LET steps == StepTrajectory(PatientInit(FALSE, TRUE), pat_call.u, 1)
              IN  \A k \in 1..Len(pat_call.u[1]) :
                      /\ pat_call.ret[k].BIS = steps[k].BIS
                      /\ pat_call.ret[k].TOL = steps[k].TOL
                      /\ pat_call.ret[k].MAP = steps[k].MAP
                      /\ pat_call.ret[k].CO = steps[k].CO

(* C5: a batch simulation given no series, or series of different lengths,
   fails with an input error and leaves the patient as it was; otherwise
   every series not given is simulated as zeros of the length of the given
   ones, and every series given is simulated as given. *)
C5_BatchInputValidation ==
    [][pat_call'.op = "full_sim" /\ pat_call'.n = pat_call.n + 1 =>
        LET args == pat_call'.args
        IN  IF ~ValidSeries(args)
            THEN pat_call'.err = "ValueError" /\ pat' = pat
            ELSE \A i \in 1..3 :
                    /\ GivenLengths(args) = {Len(pat_call'.u[i])}
                    /\ args[i].given => pat_call'.u[i] = args[i].v
                    /\ ~args[i].given => pat_call'.u[i] = Zeros(Len(pat_call'.u[i]))]_vars

\* a patient that had been stepped was given a batch with one series missing
\* and the other two of different lengths, and the call was rejected
C5_Witness ==
    /\ pat_call.op = "full_sim"
    /\ pat_call.n > 1
    /\ ~pat_call.args[2].given
    /\ Cardinality(GivenLengths(pat_call.args)) = 2
    /\ pat_call.err = "ValueError"
    /\ pat.save_data_bool
    /\ Len(pat.dataframe) > 1

(* C9: a step given a negative infusion rate fails with an input error and
   none of the patient's state is updated. *)
C9_NegativeRateNoPartialUpdate ==
    [][(/\ pat_call'.op = "one_step"
        /\ pat_call'.n = pat_call.n + 1
        /\ \E i \in 1..3 : pat_call'.args[i] < 0)
        => pat_call'.err = "InvalidInputError" /\ pat' = pat]_vars

-----------------------------------------------------------------------------
(* Specification of a Patient brought to an equilibrium *)

MaxEqCalls == 3
MoreEqCalls == pat_call.n < MaxEqCalls

\* <<bis_target, tol_target, map_target>>, BIS and TOL in percent
EqTargets == {<<50, 50, map_base>>, <<75, 25, map_base + 2>>}
\* <<bis_target, rp_ratio>>
RatioTargets == {<<50, 1>>, <<75, 2>>}
\* where a solver that has not converged stops: <<solved, iterate>>
EqOutcomes == {<<TRUE, <<0, 0>>>>, <<FALSE, <<0, 0>>>>, <<FALSE, <<MaxConc, 1>>>>}
RatioOutcomes == {<<TRUE, 1>>, <<FALSE, 1>>, <<FALSE, MaxConc>>}
\* <<u_propo, u_remi, u_nore>>
GivenInputs == {<<0, 0, 0>>, <<1, 1, 0>>, <<1, 0, 1>>, <<0, 1, 0>>, <<1, 1, 1>>}

InitEquilibrium == InitSim

\* Patient.find_equilibrium(bis_target, tol_target, map_target)
PatFindEquilibrium ==
    \E t \in EqTargets, o \in EqOutcomes :
        /\ MoreEqCalls
        /\ LET r == find_equilibrium(pat, t[1], t[2], t[3], o[1], o[2])
           IN  /\ pat' = r.p
               /\ pat_call' = Called("find_equilibrium", <<t, o>>, <<>>, r)
        /\ UNCHANGED <<hemoVars, bisVars, tciVars, twinVars, metVars, pairVars>>

\* Patient.find_bis_equilibrium_with_ratio(bis_target, rp_ratio)
PatFindBisEquilibriumWithRatio ==
    \E t \in RatioTargets, o \in RatioOutcomes :
        /\ MoreEqCalls
        /\ LET r == find_bis_equilibrium_with_ratio(pat, t[1], t[2], o[1], o[2])
           IN  /\ pat' = r.p
               /\ pat_call' = Called("find_bis_equilibrium_with_ratio", <<t, o>>, <<>>, r)
        /\ UNCHANGED <<hemoVars, bisVars, tciVars, twinVars, metVars, pairVars>>

\* Patient.initialized_at_given_input(u_propo, u_remi, u_nore)
PatInitializedAtGivenInput ==
    \E in \in GivenInputs :
        /\ MoreEqCalls
        /\ LET r == initialized_at_given_input(pat, in[1], in[2], in[3])
           IN  /\ pat' = r.p
               /\ pat_call' = Called("initialized_at_given_input", in, <<>>, r)
        /\ UNCHANGED <<hemoVars, bisVars, tciVars, twinVars, metVars, pairVars>>

\* Patient.initialized_at_maintenance(bis_target, tol_target, map_target)
PatInitializedAtMaintenance ==
    \E t \in EqTargets, o \in EqOutcomes :
        /\ MoreEqCalls
        /\ LET r == initialized_at_maintenance(pat, t[1], t[2], t[3], o[1], o[2])
           IN  /\ pat' = r.p
               /\ pat_call' = Called("initialized_at_maintenance", <<t, o>>, <<>>, r)
        /\ UNCHANGED <<hemoVars, bisVars, tciVars, twinVars, metVars, pairVars>>

\* Patient.one_step at the stored equilibrium rates, noise off
PatOneStepAtEquilibrium ==
    /\ MoreEqCalls
    /\ pat.u_propo_eq >= 0 /\ pat.u_remi_eq >= 0 /\ pat.u_nore_eq >= 0
    /\ LET r == Patient_one_step(pat, pat.u_propo_eq, pat.u_remi_eq, pat.u_nore_eq, 0,
                                 NoDist, FALSE, NoDist)
       IN  /\ pat' = r.p
           /\ pat_call' = Called("one_step",
                                  <<pat.u_propo_eq, pat.u_remi_eq, pat.u_nore_eq, 0, NoDist, FALSE>>,
                                  <<>>, r)
    /\ UNCHANGED <<hemoVars, bisVars, tciVars, twinVars, metVars, pairVars>>

NextEquilibrium ==
    \/ PatFindEquilibrium
    \/ PatFindBisEquilibriumWithRatio
    \/ PatInitializedAtGivenInput
    \/ PatInitializedAtMaintenance
    \/ PatOneStepAtEquilibrium

SpecEquilibrium == InitEquilibrium /\ [][NextEquilibrium]_vars

\* the equilibrium values a Patient stores
StoredEquilibrium(p) ==
    <<p.u_propo_eq, p.u_remi_eq, p.u_nore_eq,
      p.c_blood_propo_eq, p.c_blood_remi_eq, p.c_blood_nore_eq, p.co_eq>>

(* C6: after initialized_at_given_input(u_propo, u_remi, u_nore) every
   component of each drug's PK state is that drug's own input times that
   drug's own DC gain, and the state vectors keep their lengths. *)
C6_EachStateFromOwnInput ==
    [][(/\ pat_call'.op = "initialized_at_given_input"
        /\ pat_call'.n = pat_call.n + 1
        /\ pat_call'.err = "none")
        => LET u == pat_call'.args
           IN  /\ pat'.propo_pk.x = [i \in 1..Len(pat.propo_pk.x) |-> u[1] * dcgain(pat.propo_pk)]
               /\ pat'.remi_pk.x = [i \in 1..Len(pat.remi_pk.x) |-> u[2] * dcgain(pat.remi_pk)]
               /\ pat'.nore_pk.x = [i \in 1..Len(pat.nore_pk.x) |-> u[3] * dcgain(pat.nore_pk)]]_vars

(* C8: when the solver has not converged, find_equilibrium and
   find_bis_equilibrium_with_ratio signal an error, return no rates and leave
   the stored equilibrium values as they were, and initialized_at_maintenance
   leaves the patient's PK states as they were. *)
C8_NonConvergenceSignalled ==
    [][(/\ pat_call'.op \in {"find_equilibrium", "find_bis_equilibrium_with_ratio",
                             "initialized_at_maintenance"}
        /\ pat_call'.n = pat_call.n + 1
        /\ ~pat_call'.args[2][1])
        => /\ pat_call'.err # "none"
           /\ pat_call'.ret = <<>>
           /\ StoredEquilibrium(pat') = StoredEquilibrium(pat)
           /\ pat'.propo_pk = pat.propo_pk
           /\ pat'.remi_pk = pat.remi_pk
           /\ pat'.nore_pk = pat.nore_pk]_vars

-----------------------------------------------------------------------------
(* Specification of a Patient stepped under disturbances and measurement noise *)

MaxNoisyCalls == 3
MoreNoisyCalls == pat_call.n < MaxNoisyCalls

\* <<u_propo, u_remi, u_nore, blood_rate>>
NoisyStepInputs == {<<1, 1, 0, 0>>, <<0, 0, 0, -1>>}
\* dist = <<on BIS, on MAP, on CO>>
Dists == {NoDist, <<-150, -2, -1>>, <<30, 2, 1>>}
\* <<noise, the entry of the BIS noise block read and the MAP and CO draws>>
NoiseOutcomes ==
    {<<FALSE, NoDist>>, <<TRUE, <<-40, -1, -1>>>>, <<TRUE, NoDist>>, <<TRUE, <<40, 1, 1>>>>}

InitNoise ==
    /\ hemo_pd = HemoInit
    /\ hemo_call = NoCall
    /\ bis_pd = BisInit("Bouillon")
    /\ bis_call = NoBisCall
    /\ \E save_data_bool \in BOOLEAN : pat = PatientInit(FALSE, save_data_bool)
    /\ pat_call = NoPatCall
    /\ tci = TciInit
    /\ tci_call = NoTciCall
    /\ pat_b = PatientInit(FALSE, FALSE)
    /\ rng = 0
    /\ met_bis = <<>>
    /\ met_call = NoMetCall
    /\ hemo_b = HemoInit

\* Patient.one_step(u_propo, u_remi, u_nore, blood_rate, dist, noise); the
\* seventh entry recorded is the noise drawn, not an argument
PatOneStepNoisy ==
    \E in \in NoisyStepInputs, dist \in Dists, o \in NoiseOutcomes :
        /\ MoreNoisyCalls
        /\ VolumeInRange(pat, in[4])
        /\ LET r == Patient_one_step(pat, in[1], in[2], in[3], in[4], dist, o[1], o[2])
           IN  /\ pat' = r.p
               /\ pat_call' = Called("one_step",
                                      <<in[1], in[2], in[3], in[4], dist, o[1], o[2]>>, <<>>, r)
        /\ UNCHANGED <<hemoVars, bisVars, tciVars, twinVars, metVars, pairVars>>

NextNoise == PatOneStepNoisy

SpecNoise == InitNoise /\ [][NextNoise]_vars

(* C10: after a step with noise enabled, the BIS published (stored,
   returned and recorded) lies in [0, 100] and is the model's BIS plus the
   disturbance plus the noise sample, clipped to [0, 100] after both have
   been added. *)
C10_NoisyBisClipped ==
    [][(/\ pat_call'.op = "one_step"
        /\ pat_call'.n = pat_call.n + 1
        /\ pat_call'.err = "none"
        /\ pat_call'.args[6])
        => LET model_bis == compute_bis(pat.bis_pd, pat'.propo_pk.x[4], pat'.remi_pk.x[4]).bis
               raw == model_bis + pat_call'.args[5][1] + pat_call'.args[7][1]
           IN  /\ pat'.bis >= 0 /\ pat'.bis <= 100
               /\ pat'.bis = Clamp(raw, 0, 100)
               /\ pat_call'.ret[1] = pat'.bis
               /\ pat'.save_data_bool =>
                      pat'.dataframe[Len(pat'.dataframe)].BIS = pat'.bis]_vars

\* a noisy step whose disturbance and noise sample were both negative
\* published and recorded a BIS of 0
C10_Witness ==
    /\ pat_call.op = "one_step"
    /\ pat_call.err = "none"
    /\ pat_call.args[6]
    /\ pat_call.args[5][1] < 0
    /\ pat_call.args[7][1] < 0
    /\ pat.bis = 0
    /\ pat_call.ret[1] = 0
    /\ pat.save_data_bool
    /\ pat.dataframe[Len(pat.dataframe)].BIS = 0

(* C11: the index read from the cached noise block stays inside the block,
   a noisy step reads exactly one sample that was not read before and a
   noise-free step reads none, and a fresh block is generated exactly when
   every sample of the current block has been read, never earlier. *)
C11_BlockFullyConsumed ==
    [][(/\ pat_call'.op = "one_step"
        /\ pat_call'.n = pat_call.n + 1
        /\ pat_call'.err = "none")
        => /\ pat'.noise_index \in 0..(NoiseBlockLen - 1)
           /\ (pat'.bis_noise # pat.bis_noise) <=>
                  (pat_call'.args[6] /\ pat.noise_reads = 0..(NoiseBlockLen - 1))
           /\ IF pat_call'.args[6]
              THEN /\ pat'.noise_index \notin
                          (IF pat'.bis_noise = pat.bis_noise THEN pat.noise_reads ELSE {})
                   /\ pat'.noise_reads =
                          (IF pat'.bis_noise = pat.bis_noise THEN pat.noise_reads ELSE {})
                              \cup {pat'.noise_index}
              ELSE /\ pat'.noise_index = pat.noise_index
                   /\ pat'.noise_reads = pat.noise_reads]_vars

-----------------------------------------------------------------------------
(* Specification of a Patient whose equilibrium is computed between steps *)

MaxCandidateCalls == 2
MoreCandidateCalls == pat_call.n < MaxCandidateCalls

\* <<u_propo, u_remi, u_nore>> of the steps, <<cp_propo_eq, cp_remi_eq,
\* cp_nore_eq>> of the equilibria asked for
CandidateStepInputs == {<<1, 1, 0>>, <<0, 0, 1>>}
CandidateConcs == {<<0, 0, 0>>, <<1, 1, 0>>, <<MaxConc, 1, 1>>, <<0, 0, MaxConc>>}

\* Patient.one_step(u_propo, u_remi, u_nore)
PatOneStepDrugs ==
    \E in \in CandidateStepInputs :
        /\ MoreCandidateCalls
        /\ \E r \in {Patient_one_step(pat, in[1], in[2], in[3], 0, NoDist, FALSE, NoDist)} :
               /\ pat' = r.p
               /\ pat_call' = Called("one_step", <<in[1], in[2], in[3], 0, NoDist, FALSE>>,
                                      <<>>, r)
        /\ UNCHANGED <<hemoVars, bisVars, tciVars, twinVars, metVars, pairVars>>

\* patient.hemo_pd.state_at_equilibrium(cp_propo_eq, cp_remi_eq, cp_nore_eq)
PatStateAtEquilibrium ==
    \E c \in CandidateConcs :
        /\ MoreCandidateCalls
        /\ \E r \in {state_at_equilibrium(pat.hemo_pd, c[1], c[2], c[3])} :
               /\ pat' = [pat EXCEPT !.hemo_pd = r.pd]
               /\ pat_call' = Called("state_at_equilibrium", c, <<>>,
                                      [err |-> "none", ret |-> r.y])
        /\ UNCHANGED <<hemoVars, bisVars, tciVars, twinVars, metVars, pairVars>>

\* Patient.find_equilibrium(bis_target, tol_target, map_target)
PatFindCandidate ==
    \E t \in EqTargets, o \in EqOutcomes :
        /\ MoreCandidateCalls
        /\ \E r \in {find_equilibrium(pat, t[1], t[2], t[3], o[1], o[2])} :
               /\ pat' = r.p
               /\ pat_call' = Called("find_equilibrium", <<t, o>>, <<>>, r)
        /\ UNCHANGED <<hemoVars, bisVars, tciVars, twinVars, metVars, pairVars>>

NextCandidate == PatOneStepDrugs \/ PatStateAtEquilibrium \/ PatFindCandidate

SpecCandidate == InitSim /\ [][NextCandidate]_vars

\* what a Hemo_meca_PD_model simulates from
HemoSimState(h) ==
    <<h.x, h.x_effect, h.flag_nore_used, h.flag_blood_loss,
      h.previous_cp_propo, h.previous_cp_remi>>

(* C12: state_at_equilibrium leaves the simulated state, the two mode flags
   and the remembered concentrations of the hemodynamic model as they were,
   so that any one_step gives the same result after the call as without it;
   find_equilibrium leaves every PK state vector and the hemodynamic state as
   they were. *)
C12_CandidateNotCommitted ==
    [][(/\ pat_call'.op \in {"state_at_equilibrium", "find_equilibrium"}
        /\ pat_call'.n = pat_call.n + 1)
        => /\ HemoSimState(pat'.hemo_pd) = HemoSimState(pat.hemo_pd)
           /\ \A cp_propo \in Concs, cp_remi \in Concs, cp_nore \in Concs, v \in VRatios :
                  /\ Hemo_one_step(pat'.hemo_pd, cp_propo, cp_remi, cp_nore, v).y
                        = Hemo_one_step(pat.hemo_pd, cp_propo, cp_remi, cp_nore, v).y
                  /\ HemoSimState(Hemo_one_step(pat'.hemo_pd, cp_propo, cp_remi, cp_nore, v).pd)
                        = HemoSimState(Hemo_one_step(pat.hemo_pd, cp_propo, cp_remi, cp_nore, v).pd)
           /\ pat'.propo_pk.x = pat.propo_pk.x
           /\ pat'.remi_pk.x = pat.remi_pk.x
           /\ pat'.nore_pk.x = pat.nore_pk.x]_vars

\* find_equilibrium, called on a patient that had been stepped under
\* propofol, stored a candidate that differs from the state simulated
C12_Witness ==
    /\ pat_call.op = "find_equilibrium"
    /\ pat_call.n > 1
    /\ pat.propo_pk.x[1] > 0
    /\ pat.hemo_pd.x_eq # UnsetVector
    /\ pat.hemo_pd.x_eq # pat.hemo_pd.x
    /\ pat.hemo_pd.x_eq_w_nore # pat.hemo_pd.x_effect

-----------------------------------------------------------------------------
(* Specification of the constructors: an object is built, then used once *)

\* the age keyword when it is not passed (kwargs.get('age', -1))
NoAge == -1
\* what a constructor leaves: the attributes it has assigned
Built(class, attrs) == [class |-> class, attrs |-> attrs]
Raised(e) == [err |-> e, obj |-> Built("none", {})]
Returned(class, attrs) == [err |-> "none", obj |-> Built(class, attrs)]

\* BIS_model.__init__(hill_model, hill_param, random, age=...)
BisNames == {"Bouillon", "Vanluchene", "Eleveld"}
BIS_model_init(hill_model, hill_param, random, age) ==
    IF hill_param THEN Returned("BIS_model", {"c50p", "hill_param"})
    ELSE IF hill_model \in {"Bouillon", "Vanluchene"}
    THEN Returned("BIS_model", {"c50p", "hill_param"})
    ELSE IF hill_model = "Eleveld"
    THEN (IF age < 0 THEN Raised("ValueError")
          ELSE Returned("BIS_model", {"c50p", "hill_param"}))
    \* no branch taken: cv_c50p is unbound, self.c50p unassigned
    ELSE IF random THEN Raised("UnboundLocalError")
    ELSE Raised("AttributeError")

\* TOL_model.__init__(model, model_param, random)
TOL_model_init(model, random) ==
    IF model = "Bouillon" THEN Returned("TOL_model", {"c50p"})
    ELSE IF random THEN Raised("UnboundLocalError")
    ELSE Returned("TOL_model", {})

\* Hemo_meca_PD_model.__init__(age, ts, model, nore_model, random)
Hemo_meca_PD_model_init(model, nore_model, random) ==
    IF model # "Su" THEN Raised("ValueError")
    ELSE IF nore_model \in {"Beloeil", "Oualha"}
    THEN Returned("Hemo_meca_PD_model", {"x", "emax_nore_map"})
    ELSE IF random THEN Raised("AttributeError")
    ELSE Returned("Hemo_meca_PD_model", {"x"})

\* Patient.__init__(patient_characteristic, model_bis, hill_param, random_PD):
\* the BIS model is built from the name, the parameters and the random flag
PatientBuilt(rb, rt, rh) ==
    IF rb.err # "none" THEN Raised(rb.err)
    ELSE IF rt.err # "none" THEN Raised(rt.err)
    ELSE IF rh.err # "none" THEN Raised(rh.err)
    ELSE Returned("Patient", {"age", "bis_pd", "tol_pd", "hemo_pd"})
Patient_init(model_bis, hill_param, random_PD) ==
    PatientBuilt(BIS_model_init(model_bis, hill_param, random_PD, NoAge),
                 TOL_model_init("Bouillon", random_PD),
                 Hemo_meca_PD_model_init("Su", "Beloeil", random_PD))

\* the first call on a built object: compute_bis, compute_tol, one_step
\* (cp_nore > 0 or not), Patient.one_step
FirstUse(obj, with_nore) ==
    IF obj.class = "BIS_model" /\ "c50p" \notin obj.attrs THEN "AttributeError"
    ELSE IF obj.class = "TOL_model" /\ "c50p" \notin obj.attrs THEN "AttributeError"
    ELSE IF obj.class = "Hemo_meca_PD_model" /\ with_nore /\ "emax_nore_map" \notin obj.attrs
    THEN "AttributeError"
    ELSE "none"

ConfigNames == BisNames \cup {"Fuentes"}
ConfigAges == {NoAge, 35}

Constructed(op, args, r) ==
    /\ pat_call.n = 0
    /\ pat_call' = [op |-> op, args |-> args, u |-> <<>>, err |-> r.err, ret |-> r.obj, n |-> 1]
    /\ UNCHANGED <<pat, hemoVars, bisVars, tciVars, twinVars, metVars, pairVars>>

NewBisModel ==
    \E hm \in ConfigNames, hp \in BOOLEAN, random \in BOOLEAN, age \in ConfigAges :
        Constructed("BIS_model", <<hm, hp, random, age>>, BIS_model_init(hm, hp, random, age))
NewTolModel ==
    \E model \in {"Bouillon", "Other"}, random \in BOOLEAN :
        Constructed("TOL_model", <<model, random>>, TOL_model_init(model, random))
NewHemoModel ==
    \E model \in {"Su", "Other"}, nore_model \in {"Beloeil", "Oualha", "Other"},
       random \in BOOLEAN :
        Constructed("Hemo_meca_PD_model", <<model, nore_model, random>>,
                    Hemo_meca_PD_model_init(model, nore_model, random))
NewPatient ==
    \E model_bis \in ConfigNames, hp \in BOOLEAN, random_PD \in BOOLEAN :
        Constructed("Patient", <<model_bis, hp, random_PD>>,
                    Patient_init(model_bis, hp, random_PD))
UseBuilt ==
    \E with_nore \in BOOLEAN :
        /\ pat_call.n = 1
        /\ pat_call.err = "none"
        /\ pat_call' = [op |-> "first_call", args |-> <<pat_call.op, pat_call.args, with_nore>>,
                        u |-> <<>>, err |-> FirstUse(pat_call.ret, with_nore),
                        ret |-> pat_call.ret, n |-> 2]
        /\ UNCHANGED <<pat, hemoVars, bisVars, tciVars, twinVars, metVars, pairVars>>

NextConstruct == NewBisModel \/ NewTolModel \/ NewHemoModel \/ NewPatient \/ UseBuilt

SpecConstruct == InitHemo /\ [][NextConstruct]_vars

\* the configuration handed to a constructor is one it cannot serve: a name
\* it does not know (no explicit parameters given) or Eleveld without an age
Misconfigured(op, args) ==
    IF op = "BIS_model"
    THEN ~args[2] /\ (args[1] \notin BisNames \/ (args[1] = "Eleveld" /\ args[4] = NoAge))
    ELSE IF op = "TOL_model" THEN args[1] # "Bouillon"
    ELSE IF op = "Hemo_meca_PD_model"
    THEN args[1] # "Su" \/ args[2] \notin {"Beloeil", "Oualha"}
    ELSE ~args[2] /\ args[1] \notin BisNames

(* C15: a constructor given an unrecognized model name, or an age-dependent
   parameterization without an age, fails at once, so that no object is built
   that only fails on a later call; a constructor given a recognized name and
   the covariates it needs succeeds, a Patient with Eleveld included. *)
C15_ConfigurationCheckedAtConstruction ==
    /\ pat_call.op \in {"BIS_model", "TOL_model", "Hemo_meca_PD_model", "Patient"}
          => (Misconfigured(pat_call.op, pat_call.args) <=> pat_call.err # "none")
    /\ pat_call.op = "first_call" => pat_call.err = "none"

-----------------------------------------------------------------------------
(* Specification of a TCIController called every sampling time *)

MaxTciCalls == 6
TciTargets == {0, 4, 8, 12}

TciStepped(target, r) ==
    /\ tci' = r.c
    /\ tci_call' = [target |-> target, ret |-> r.ret, n |-> tci_call.n + 1]
TciOneStep ==
    \E target \in TciTargets :
        /\ tci_call.n < MaxTciCalls
        /\ TciStepped(target, Tci_one_step(tci, target))
        /\ UNCHANGED <<hemoVars, bisVars, patVars, twinVars, metVars, pairVars>>

NextTci == TciOneStep

SpecTci == InitHemo /\ [][NextTci]_vars

(* C16: every value TCIController.one_step returns lies in [0, maximum_rate]
   ml/h, the drug rate kept lying in [0, infusion_max], for any sequence of
   calls and targets, targets that change between control instants and
   targets below the current concentration included. *)
C16_RateWithinLimits ==
    tci_call.n > 0
        => /\ tci_call.ret >= 0 /\ tci_call.ret <= maximum_rate
           /\ tci.infusion_rate >= 0 /\ tci.infusion_rate <= infusion_max

\* the target was lowered below the concentration between two control
\* instants and the call returned 0
C16_Witness ==
    /\ tci_call.n > 1
    /\ tci.time % control_time = 0
    /\ tci_call.target < tci.x[target_id]
    /\ tci_call.target > 0
    /\ tci_call.ret = 0
    /\ tci.infusion_rate = 0

\* a call returned the maximum rate
C16_WitnessMax ==
    /\ tci_call.n > 0
    /\ tci_call.ret = maximum_rate

-----------------------------------------------------------------------------
(* Specification of two Patient instances of one process, with the numbers
   of np.random made explicit: rng is the position of the module-level
   generator in its stream (after np.random.seed), advanced by every draw *)

MaxTwinCalls == 3

\* np.random.normal: the draw at position n of the stream
Draw(n) == (n % 3) - 1
\* white_noise through control.forced_response: entry idx of the block that
\* was drawn with the generator at position seed
BlockEntry(seed, idx) == 3 * Draw(seed + idx)

\* Patient.add_noise seen from the generator: whether the block is drawn
\* anew (NoiseBlockLen draws), then the MAP draw, then the CO draw
TwinDraws(p, g) ==
    LET fresh == p.noise_index + 1 >= NoiseBlockLen
        pos == IF fresh THEN g + NoiseBlockLen ELSE g
        seed == IF fresh THEN g ELSE p.noise_seed
        idx == IF fresh THEN 0 ELSE p.noise_index + 1
    IN  [sample |-> <<BlockEntry(seed, idx), Draw(pos), Draw(pos + 1)>>,
         seed |-> seed, rng |-> pos + 2]

\* Patient.one_step with the generator at position g: the instance, the
\* tuple returned and the generator afterwards
TwinResult(r, d, g, noise) ==
    IF noise /\ r.err = "none"
    THEN [p |-> [r.p EXCEPT !.noise_seed = d.seed], ret |-> r.ret, rng |-> d.rng]
    ELSE [p |-> r.p, ret |-> r.ret, rng |-> g]
TwinSampled(p, g, in, noise, d) ==
    TwinResult(Patient_one_step(p, in[1], in[2], in[3], in[4], NoDist, noise, d.sample),
               d, g, noise)
Twin_one_step(p, g, in, noise) == TwinSampled(p, g, in, noise, TwinDraws(p, g))

\* <<u_propo, u_remi, u_nore, blood_rate>>
TwinStepInputs == {<<0, 0, 0, 0>>, <<1, 1, 0, 0>>}

\* A is constructed first, then B: each __init__ draws its first block
InitTwin ==
    /\ hemo_pd = HemoInit
    /\ hemo_call = NoCall
    /\ bis_pd = BisInit("Bouillon")
    /\ bis_call = NoBisCall
    /\ pat = [PatientInit(FALSE, FALSE) EXCEPT !.noise_seed = 0]
    /\ pat_call = NoPatCall
    /\ tci = TciInit
    /\ tci_call = NoTciCall
    /\ pat_b = [PatientInit(FALSE, TRUE) EXCEPT !.noise_seed = NoiseBlockLen]
    /\ rng = 2 * NoiseBlockLen
    /\ met_bis = <<>>
    /\ met_call = NoMetCall
    /\ hemo_b = HemoInit

TwinSteppedA(in, noise, r) ==
    /\ pat' = r.p
    /\ rng' = r.rng
    /\ pat_call' = [op |-> "one_step", args |-> <<in[1], in[2], in[3], in[4], NoDist, noise>>,
                    u |-> <<>>, err |-> "none", ret |-> r.ret, n |-> pat_call.n + 1]
TwinSteppedB(r) ==
    /\ pat_b' = r.p
    /\ rng' = r.rng

\* A.one_step(...)
TwinStepA ==
    \E in \in TwinStepInputs, noise \in BOOLEAN :
        /\ pat_call.n < MaxTwinCalls
        /\ TwinSteppedA(in, noise, Twin_one_step(pat, rng, in, noise))
        /\ UNCHANGED <<hemoVars, bisVars, tciVars, pat_b, metVars, pairVars>>

\* B.one_step(...)
TwinStepB ==
    \E in \in TwinStepInputs, noise \in BOOLEAN :
        /\ pat_b.Time < MaxTwinCalls
        /\ TwinSteppedB(Twin_one_step(pat_b, rng, in, noise))
        /\ UNCHANGED <<hemoVars, bisVars, tciVars, patVars, metVars, pairVars>>

NextTwin == TwinStepA \/ TwinStepB

SpecTwin == InitTwin /\ [][NextTwin]_vars

(* C17: an operation on patient A changes nothing that an operation on
   patient B reads: after any step of A, with noise or without, every step B
   can make next leaves B in the same state and returns the same outputs as
   it would have without A's step, and the two share no state that a step
   writes. *)
C17_InstancesIndependent ==
    [][(pat_call'.n = pat_call.n + 1)
        => /\ pat_b' = pat_b
           /\ rng' = rng
           /\ \A in \in TwinStepInputs, noise \in BOOLEAN :
                  /\ Twin_one_step(pat_b', rng', in, noise).p
                         = Twin_one_step(pat_b, rng, in, noise).p
                  /\ Twin_one_step(pat_b', rng', in, noise).ret
                         = Twin_one_step(pat_b, rng, in, noise).ret]_vars

-----------------------------------------------------------------------------
(* Specification of a Patient that records its trajectory, built with a
   sampling time of one quantum or of 0.1 s (205 quanta of 2^-11 s, the
   nearest float) *)

MaxRecordCalls == 8

SampleTimes == {1, 205}
\* <<u_propo, u_remi, u_nore>>: some rate is not 0, the value save_data writes
RecordStepInputs == {<<1, 0, 0>>, <<0, 1, 1>>}
RecordGivenInputs == {<<1, 1, 0>>}

InitRecord ==
    /\ hemo_pd = HemoInit
    /\ hemo_call = NoCall
    /\ bis_pd = BisInit("Bouillon")
    /\ bis_call = NoBisCall
    /\ \E ts \in SampleTimes : pat = [PatientInit(FALSE, TRUE) EXCEPT !.ts = ts]
    /\ pat_call = NoPatCall
    /\ tci = TciInit
    /\ tci_call = NoTciCall
    /\ pat_b = PatientInit(FALSE, FALSE)
    /\ rng = 0
    /\ met_bis = <<>>
    /\ met_call = NoMetCall
    /\ hemo_b = HemoInit

Recorded(op, args, r) ==
    /\ pat' = r.p
    /\ pat_call' = Called(op, args, <<>>, r)

\* Patient.one_step(u_propo, u_remi, u_nore)
RecordOneStep ==
    \E in \in RecordStepInputs :
        /\ pat_call.n < MaxRecordCalls
        /\ Recorded("one_step", in,
                    Patient_one_step(pat, in[1], in[2], in[3], 0, NoDist, FALSE, NoDist))
        /\ UNCHANGED <<hemoVars, bisVars, tciVars, twinVars, metVars, pairVars>>

\* Patient.initialized_at_given_input(u_propo, u_remi, u_nore)
RecordInitialized ==
    \E in \in RecordGivenInputs :
        /\ pat_call.n < MaxRecordCalls
        /\ Recorded("initialized_at_given_input", in,
                    initialized_at_given_input(pat, in[1], in[2], in[3]))
        /\ UNCHANGED <<hemoVars, bisVars, tciVars, twinVars, metVars, pairVars>>

NextRecord == RecordOneStep \/ RecordInitialized

SpecRecord == InitRecord /\ [][NextRecord]_vars

\* the recorded time t is the one of row k: nearer to k*ts than to any other
\* multiple of ts
TimeOfRow(t, k, ts) ==
    /\ 2 * (t - k * ts) < ts
    /\ 2 * (k * ts - t) < ts
\* the table df extended by a step that was given the rates u
StepRecorded(df, df2, u, ts) ==
    /\ Len(df2) = Len(df) + 1
    /\ \A k \in 1..(Len(df) - 1) : df2[k] = df[k]
    /\ df2[Len(df)] = [df[Len(df)] EXCEPT !.u_propo = u[1], !.u_remi = u[2],
                                          !.u_nore = u[3]]
    /\ TimeOfRow(df2[Len(df2)].Time, Len(df2) - 1, ts)

(* C18: with recording enabled the table has one row per sampling step:
   initialized_at_given_input leaves one row of time 0, and each one_step
   adds exactly one row, whose time is the row number times ts, writes the
   rates it was given into the row that was last before it, and changes no
   other cell of any existing row. *)
C18_OneRowPerStep ==
    [][(pat_call'.n = pat_call.n + 1 /\ pat_call'.err = "none")
        => IF pat_call'.op = "one_step"
           THEN StepRecorded(pat.dataframe, pat'.dataframe, pat_call'.args, pat.ts)
           ELSE /\ Len(pat'.dataframe) = 1
                /\ pat'.dataframe[1].Time = 0]_vars

-----------------------------------------------------------------------------
(* Specification of a Patient that bleeds and is transfused *)

MaxBloodCalls == 4
MaxTransfused == 2

\* <<u_propo, u_remi, u_nore>>, blood_rate*ts in grid units of volume, dist
BloodDrugs == {<<0, 0, 0>>, <<1, 1, 0>>}
BloodRates == {-1, 0, 1}
BloodDists == {NoDist, <<0, 2, 1>>}

InitBlood ==
    /\ hemo_pd = HemoInit
    /\ hemo_call = NoCall
    /\ bis_pd = BisInit("Bouillon")
    /\ bis_call = NoBisCall
    /\ pat = PatientInit(FALSE, FALSE)
    /\ pat_call = NoPatCall
    /\ tci = TciInit
    /\ tci_call = NoTciCall
    /\ pat_b = PatientInit(FALSE, FALSE)
    /\ rng = 0
    /\ met_bis = <<>>
    /\ met_call = NoMetCall
    /\ hemo_b = HemoInit

\* the volume leaves a positive c50p to the BIS model
BloodDefined(p, vol) == update_param_blood_loss(p.bis_pd, vol, blood_volume_init).c50p > 0

BloodStepped(args, r) ==
    /\ pat' = r.p
    /\ pat_call' = Called("one_step", args, <<>>, r)

\* Patient.one_step(u_propo, u_remi, u_nore, blood_rate, dist, noise=False)
BloodOneStep ==
    \E u \in BloodDrugs, blood_rate \in BloodRates, dist \in BloodDists :
        /\ pat_call.n < MaxBloodCalls
        /\ BloodDefined(pat, pat.blood_volume + blood_rate)
        /\ pat.blood_volume + blood_rate <= blood_volume_init + MaxTransfused
        /\ BloodStepped(<<u[1], u[2], u[3], blood_rate, dist, FALSE>>,
                        Patient_one_step(pat, u[1], u[2], u[3], blood_rate, dist, FALSE, NoDist))
        /\ UNCHANGED <<hemoVars, bisVars, tciVars, twinVars, metVars, pairVars>>

NextBlood == BloodOneStep

SpecBlood == InitBlood /\ [][NextBlood]_vars

\* the blood-dependent parameters of the engines
BloodParams(p) == <<p.propo_pk.bv, p.remi_pk.bv, p.nore_pk.bv, p.bis_pd.c50p>>
\* what a step from p to p2 with hemodynamic outputs y publishes and updates
\* when the blood-loss effect is applied, and when it is not
BloodApplied(p, p2, y, dist) ==
    /\ p2.map = ((y[4] + dist[2]) * p2.blood_volume) \div blood_volume_init
    /\ p2.co = ((y[5] + dist[3]) * p2.blood_volume) \div blood_volume_init
    /\ BloodParams(p2) =
           <<p2.blood_volume, p2.blood_volume, p2.blood_volume,
             update_param_blood_loss(p.bis_pd, p2.blood_volume, blood_volume_init).c50p>>
BloodNotApplied(p, p2, y, dist) ==
    /\ p2.map = y[4] + dist[2]
    /\ p2.co = y[5] + dist[3]
    /\ BloodParams(p2) = BloodParams(p)
BloodFollowsRate(p, p2, y, blood_rate, dist) ==
    /\ p2.blood_volume = p.blood_volume + blood_rate
    /\ blood_rate < 0 => p2.blood_volume < p.blood_volume
    /\ blood_rate > 0 => p2.blood_volume > p.blood_volume
    /\ (blood_rate < 0 /\ p.blood_volume <= blood_volume_init)
           => /\ p2.blood_volume < blood_volume_init
              /\ p2.map <= y[4] + dist[2]
              /\ p2.co <= y[5] + dist[3]
    /\ IF blood_rate # 0 \/ p.blood_volume # blood_volume_init
       THEN BloodApplied(p, p2, y, dist)
       ELSE BloodNotApplied(p, p2, y, dist)

(* C19: each step changes the blood volume by the blood rate, so the volume
   and its ratio to the initial volume strictly decrease at every bleeding
   step (and are below 1 under sustained bleeding, where the published MAP
   and CO are the hemodynamic ones times that ratio) and strictly increase
   at every transfusion step; the scaling of MAP and CO and the update of the
   PK and BIS parameters are applied exactly on the steps whose blood rate
   is not 0 or that start with a volume other than the initial one. *)
C19_BloodVolumeFollowsRate ==
    [][(pat_call'.n = pat_call.n + 1 /\ pat_call'.err = "none")
        => BloodFollowsRate(pat, pat',
               Hemo_one_step(pat.hemo_pd, pat'.propo_pk.x[1], pat'.remi_pk.x[1],
                             pat'.nore_pk.x[1], VOne).y,
               pat_call'.args[4], pat_call'.args[5])]_vars

\* a second bleeding step in a row has taken the volume two units below the
\* initial one and published a MAP scaled down
C19_Witness ==
    /\ pat_call.op = "one_step"
    /\ pat_call.args[4] < 0
    /\ pat.blood_volume = blood_volume_init - 2
    /\ pat.propo_pk.bv = pat.blood_volume
    /\ pat.map < map_base

-----------------------------------------------------------------------------
(* Claims about the outputs a step publishes, under SpecNoise *)

\* the outputs of a step from p to p2, given the outputs bis, tol and y of
\* the three PD models for the concentrations of p2
Composed(p2, bis, tol, y, dist, noise) ==
    /\ p2.tol = tol
    /\ p2.tpr = y[1]
    /\ p2.sv = y[2]
    /\ p2.hr = y[3]
    /\ ~noise =>
          /\ p2.bis = bis + dist[1]
          /\ p2.map = ((y[4] + dist[2]) * p2.blood_volume) \div blood_volume_init
          /\ p2.co = ((y[5] + dist[3]) * p2.blood_volume) \div blood_volume_init

(* C20: after one_step without noise the published BIS is the BIS model's
   output plus dist[0], MAP and CO are the hemodynamic model's plus dist[1]
   and dist[2], times the ratio of the blood volume after this step to the
   initial one; TOL is the TOL model's output whatever the disturbance, the
   blood volume and the noise, and TPR, SV and HR are the hemodynamic
   model's; the tuple returned is (BIS, CO, MAP, TOL). *)
C20_OutputComposition ==
    [][(/\ pat_call'.op = "one_step"
        /\ pat_call'.n = pat_call.n + 1
        /\ pat_call'.err = "none")
        => /\ Composed(pat',
                  compute_bis(pat.bis_pd, pat'.propo_pk.x[4], pat'.remi_pk.x[4]).bis,
                  compute_tol(pat'.propo_pk.x[4], pat'.remi_pk.x[4]),
                  Hemo_one_step(pat.hemo_pd, pat'.propo_pk.x[1], pat'.remi_pk.x[1],
                                pat'.nore_pk.x[1], VOne).y,
                  pat_call'.args[5], pat_call'.args[6])
           /\ pat_call'.ret = <<pat'.bis, pat'.co, pat'.map, pat'.tol>>]_vars

\* a noise-free bleeding step under a disturbance published a BIS below 0
\* and a MAP scaled by a ratio below 1
C20_Witness ==
    /\ pat_call.op = "one_step"
    /\ pat_call.err = "none"
    /\ ~pat_call.args[6]
    /\ pat_call.args[4] < 0
    /\ pat_call.args[5][1] < 0
    /\ pat_call.args[5][2] # 0
    /\ pat.blood_volume < blood_volume_init
    /\ pat.bis < 0
    /\ pat_call.ret[1] = pat.bis

-----------------------------------------------------------------------------
(* compute_control_metrics (metrics.py).  Lists are indexed from 0 as in the
   code: entry j of a list is l[j + 1].  Times are in seconds, metrics in
   minutes. *)

MinOf(S) == CHOOSE x \in S : \A y \in S : x <= y
MaxOf(S) == CHOOSE x \in S : \A y \in S : x >= y
Values(l, from, to) == {l[j + 1] : j \in from..(to - 1)}

\* np.where(np.array(time) == t)[0][0]: -1 stands for the IndexError
IndexOfTime(time, t) ==
    IF \E j \in 0..(Len(time) - 1) : time[j + 1] = t
    THEN MinOf({j \in 0..(Len(time) - 1) : time[j + 1] = t})
    ELSE -1

\* the body of the induction loop at sample j
Settling_noReset(ST, t, b, lo, hi) == IF b < hi /\ b > lo /\ ST = NaN THEN t \div 60 ELSE ST
Settling(ST, t, b, lo, hi) ==
    IF b < hi /\ b > lo
    THEN (IF ST = NaN THEN t \div 60 ELSE ST)
    ELSE NaN
InductionBody(acc, t, b) ==
    [TT |-> IF b < 55 /\ acc.TT = NaN THEN t \div 60 ELSE acc.TT,
     ST10 |-> Settling(acc.ST10, t, b, 45, 55),
     ST20 |-> Settling(acc.ST20, t, b, 40, 60)]
\* for j in range(n)
RECURSIVE InductionLoop(_, _, _, _, _)
InductionLoop(time, bis, j, n, acc) ==
    IF j >= n THEN acc
    ELSE InductionLoop(time, bis, j + 1, n, InductionBody(acc, time[j + 1], bis[j + 1]))
\* BIS_NADIR, US and the three times of the first n samples
InductionOf(time, bis, n, acc) ==
    [TT |-> acc.TT, BIS_NADIR |-> MinOf(Values(bis, 0, n)), ST10 |-> acc.ST10,
     ST20 |-> acc.ST20, US |-> Max2(0, 45 - MinOf(Values(bis, 0, n)))]
Induction(time, bis, n) ==
    InductionOf(time, bis, n,
                InductionLoop(time, bis, 0, n, [TT |-> NaN, ST10 |-> NaN, ST20 |-> NaN]))

\* for j in range(from, to): if bis[j + off] < 55 (positive) or > 45
\* (negative): the j at the break, the end of the range without one, or the
\* IndexError of reading bis[len(bis)]
RECURSIVE StepScan(_, _, _, _, _)
StepScan(bis, j, to, off, positive) ==
    IF j >= to THEN [found |-> FALSE, j |-> j, err |-> "none"]
    ELSE IF j + off >= Len(bis) THEN [found |-> FALSE, j |-> j, err |-> "IndexError"]
    ELSE IF (positive /\ bis[j + off + 1] < 55) \/ (~positive /\ bis[j + off + 1] > 45)
    THEN [found |-> TRUE, j |-> j, err |-> "none"]
    ELSE StepScan(bis, j + 1, to, off, positive)

MetRaised(e) == [err |-> e, ret |-> <<>>]
MetReturned(r) == [err |-> "none", ret |-> r]

\* phase == 'maintenance', from the two loops on
MaintenanceTimes(time, bis, start_step, end_step, index_start, index_end, sp, sn) ==
    IF sp.err # "none" THEN MetRaised(sp.err)
    ELSE IF sn.err # "none" THEN MetRaised(sn.err)
    ELSE MetReturned(
        [TTp |-> IF sp.found THEN (time[sp.j + 1] - start_step) \div 60 ELSE NaN,
         BIS_NADIRp |-> MinOf(Values(bis, index_start, index_end)),
         TTn |-> IF sn.found THEN (time[sn.j + 1] - end_step) \div 60 ELSE NaN,
         BIS_NADIRn |-> MaxOf(Values(bis, index_end, Len(bis)))])
MaintenanceAt(time, bis, start_step, end_step, i_start, i_end) ==
    IF i_start < 0 \/ i_end < 0 THEN MetRaised("IndexError")
    ELSE IF i_start + 1 >= i_end THEN MetRaised("ValueError")
    ELSE MaintenanceTimes(time, bis, start_step, end_step, i_start + 1, i_end,
                          StepScan(bis, i_start + 1, i_end, 1, TRUE),
                          StepScan(bis, i_end, Len(bis), 1, FALSE))
Maintenance(time, bis, start_step, end_step) ==
    MaintenanceAt(time, bis, start_step, end_step,
                  IndexOfTime(time, start_step), IndexOfTime(time, end_step))

\* phase == 'total': induction over the first 10 minutes, then the step
TotalTimes(time, bis, start_step, index_start, index_end, ind, sp, sn) ==
    MetReturned(
        [TT |-> ind.TT, BIS_NADIR |-> ind.BIS_NADIR, ST10 |-> ind.ST10,
         ST20 |-> ind.ST20, US |-> ind.US,
         TTp |-> IF sp.found THEN (time[sp.j + 1] - start_step) \div 60 ELSE NaN,
         BIS_NADIRp |-> MinOf(Values(bis, index_start, index_end)),
         TTn |-> IF sn.found THEN (time[sn.j + 1] - time[index_end + 1]) \div 60 ELSE NaN,
         BIS_NADIRn |-> MaxOf(Values(bis, index_end, Len(bis)))])
TotalAt(time, bis, start_step, index_10, i_start, i_end) ==
    IF index_10 < 0 THEN MetRaised("IndexError")
    ELSE IF index_10 = 0 THEN MetRaised("ValueError")
    ELSE IF i_start < 0 \/ i_end < 0 THEN MetRaised("IndexError")
    ELSE IF i_start >= i_end \/ i_end + 1 >= Len(bis) THEN MetRaised("ValueError")
    ELSE TotalTimes(time, bis, start_step, i_start + 1, i_end + 1,
                    Induction(time, bis, index_10),
                    StepScan(bis, i_start + 1, i_end + 1, 0, TRUE),
                    StepScan(bis, i_end + 1, Len(bis), 0, FALSE))
Total(time, bis, start_step, end_step) ==
    TotalAt(time, bis, start_step, IndexOfTime(time, 600),
            IndexOfTime(time, start_step), IndexOfTime(time, end_step))

\* compute_control_metrics(time, bis, phase, start_step, end_step); any
\* other phase falls through every branch and returns None
compute_control_metrics(time, bis, phase, start_step, end_step) ==
    IF phase = "induction"
    THEN (IF Len(bis) = 0 THEN MetRaised("ValueError")
          ELSE MetReturned(Induction(time, bis, Len(bis))))
    ELSE IF phase = "maintenance" THEN Maintenance(time, bis, start_step, end_step)
    ELSE IF phase = "total" THEN Total(time, bis, start_step, end_step)
    ELSE MetReturned(<<>>)

-----------------------------------------------------------------------------
(* Specification of compute_control_metrics applied to BIS trajectories
   sampled every 5 minutes *)

MaxSamples == 5

MetBisValues == {38, 45, 50, 57, 65}
MetPhases == {"induction", "maintenance", "total"}
MetStepTimes == {300, 600, 900}
\* the time list of a trajectory of n samples
MetTime(n) == [j \in 1..n |-> (j - 1) * 300]

InitMetrics ==
    /\ hemo_pd = HemoInit
    /\ hemo_call = NoCall
    /\ bis_pd = BisInit("Bouillon")
    /\ bis_call = NoBisCall
    /\ pat = PatientInit(FALSE, FALSE)
    /\ pat_call = NoPatCall
    /\ tci = TciInit
    /\ tci_call = NoTciCall
    /\ pat_b = PatientInit(FALSE, FALSE)
    /\ rng = 0
    /\ met_bis = <<>>
    /\ met_call = NoMetCall
    /\ hemo_b = HemoInit

\* one more sample of the simulation
MetSample ==
    \E b \in MetBisValues :
        /\ Len(met_bis) < MaxSamples
        /\ met_bis' = Append(met_bis, b)
        /\ met_call' = NoMetCall
        /\ UNCHANGED <<hemoVars, bisVars, patVars, tciVars, twinVars, pairVars>>

MetComputed(phase, start_step, end_step, r) ==
    met_call' = [phase |-> phase, start_step |-> start_step, end_step |-> end_step,
                 err |-> r.err, ret |-> r.ret, n |-> 1]

\* compute_control_metrics(time, bis, phase, start_step, end_step)
MetCompute ==
    \E phase \in MetPhases, start_step \in MetStepTimes, end_step \in MetStepTimes :
        /\ start_step < end_step
        /\ Len(met_bis) > 0
        /\ MetComputed(phase, start_step, end_step,
                       compute_control_metrics(MetTime(Len(met_bis)), met_bis, phase,
                                               start_step, end_step))
        /\ UNCHANGED <<hemoVars, bisVars, patVars, tciVars, twinVars, met_bis, pairVars>>

NextMetrics == MetSample \/ MetCompute

SpecMetrics == InitMetrics /\ [][NextMetrics]_vars

\* the 0-based samples of bis strictly inside lo..hi from i to the end
SettledFrom(bis, i, lo, hi) == \A k \in i..(Len(bis) - 1) : bis[k + 1] > lo /\ bis[k + 1] < hi
\* the time of the first sample of the final run inside the band, if any
SettlingTime(time, bis, lo, hi) ==
    IF bis[Len(bis)] > lo /\ bis[Len(bis)] < hi
    THEN time[MinOf({i \in 0..(Len(bis) - 1) : SettledFrom(bis, i, lo, hi)}) + 1] \div 60
    ELSE NaN
TimeToTarget(time, bis) ==
    IF \E j \in 0..(Len(bis) - 1) : bis[j + 1] < 55
    THEN time[MinOf({j \in 0..(Len(bis) - 1) : bis[j + 1] < 55}) + 1] \div 60
    ELSE NaN

(* C21: for the induction phase, TT is the time of the first sample with
   BIS < 55 (NaN without one), ST10 and ST20 are the time of the first
   sample of the final unbroken run strictly inside 45..55 and 40..60 that
   lasts to the end of the trajectory (NaN when the last sample is outside
   the band), and US = max(0, 45 - minimum BIS); times in minutes. *)
C21_InductionMetrics ==
    (met_call.n > 0 /\ met_call.phase = "induction")
        => /\ met_call.err = "none"
           /\ met_call.ret.TT = TimeToTarget(MetTime(Len(met_bis)), met_bis)
           /\ met_call.ret.ST10 = SettlingTime(MetTime(Len(met_bis)), met_bis, 45, 55)
           /\ met_call.ret.ST20 = SettlingTime(MetTime(Len(met_bis)), met_bis, 40, 60)
           /\ met_call.ret.US = Max2(0, 45 - MinOf(Values(met_bis, 0, Len(met_bis))))
           /\ met_call.ret.BIS_NADIR = MinOf(Values(met_bis, 0, Len(met_bis)))

\* an induction that reached the target, left the 45..55 band and came
\* back to it: the settling time is later than the time to target, with an
\* undershoot
C21_Witness ==
    /\ met_call.n > 0
    /\ met_call.phase = "induction"
    /\ met_call.ret.TT # NaN
    /\ met_call.ret.ST10 # NaN
    /\ met_call.ret.ST10 > met_call.ret.TT + 5
    /\ met_call.ret.ST20 < met_call.ret.ST10
    /\ met_call.ret.US > 0

\* the samples after start_step up to end_step, and those after end_step
StepWindow(time, start_step, end_step) ==
    {j \in 0..(Len(time) - 1) : time[j + 1] > start_step /\ time[j + 1] <= end_step}
AfterStep(time, end_step) == {j \in 0..(Len(time) - 1) : time[j + 1] > end_step}
HasTime(time, t) == \E j \in 1..Len(time) : time[j] = t

(* C22: on a trajectory that contains the start_step and end_step
   timestamps, the maintenance and total phases return normally; TTp is NaN
   when no BIS inside the step window is below 55 and TTn is NaN when no BIS
   after the end of the step is above 45; TTp and TTn are not negative when
   defined. *)
C22_MaintenanceNeverFails ==
    (/\ met_call.n > 0
     /\ met_call.phase \in {"maintenance", "total"}
     /\ HasTime(MetTime(Len(met_bis)), met_call.start_step)
     /\ HasTime(MetTime(Len(met_bis)), met_call.end_step))
        => /\ met_call.err = "none"
           /\ (\A j \in StepWindow(MetTime(Len(met_bis)), met_call.start_step,
                                   met_call.end_step) : met_bis[j + 1] >= 55)
                  => met_call.ret.TTp = NaN
           /\ (\A j \in AfterStep(MetTime(Len(met_bis)), met_call.end_step) :
                   met_bis[j + 1] <= 45)
                  => met_call.ret.TTn = NaN
           /\ met_call.ret.TTp # NaN => met_call.ret.TTp >= 0
           /\ met_call.ret.TTn # NaN => met_call.ret.TTn >= 0

-----------------------------------------------------------------------------
(* Claims about the cardiac-output scaling of the PK engines, under
   SpecEquilibrium *)

\* the cardiac output each PK engine is scaled to (co_base: ratio 1.0)
CoScaling(p) == <<p.propo_pk.co, p.remi_pk.co, p.nore_pk.co>>
Unscaled == <<co_base, co_base, co_base>>
\* the rate that holds concentration c in engine pk scaled to cardiac output co
RateAtCo(c, pk, co) == RateFor(c, [pk EXCEPT !.co = co])

(* C23: with co_update enabled, find_equilibrium converts the equilibrium
   concentrations to rates with the three PK engines scaled to co_eq and
   returns with all three scaled back to ratio 1.0; with co_update disabled,
   find_equilibrium, one_step and initialized_at_given_input leave the
   scaling of the three engines at ratio 1.0. *)
C23_CoRescalingBracketed ==
    [][(pat_call'.n = pat_call.n + 1 /\ pat_call'.err = "none")
        => /\ (pat_call'.op = "find_equilibrium" /\ pat.co_update)
                  => /\ CoScaling(pat') = Unscaled
                     /\ pat'.u_propo_eq =
                            RateAtCo(pat'.c_blood_propo_eq, pat.propo_pk, pat'.co_eq)
                     /\ pat'.u_remi_eq =
                            RateAtCo(pat'.c_blood_remi_eq, pat.remi_pk, pat'.co_eq)
                     /\ pat'.u_nore_eq =
                            RateAtCo(pat'.c_blood_nore_eq, pat.nore_pk, pat'.co_eq)
           /\ (/\ ~pat.co_update
               /\ pat_call'.op \in {"find_equilibrium", "one_step",
                                    "initialized_at_given_input"})
                  => /\ CoScaling(pat) = Unscaled
                     /\ CoScaling(pat') = Unscaled]_vars

\* find_equilibrium has returned on a patient with co_update whose engines
\* were scaled to another cardiac output before, for an equilibrium whose
\* cardiac output is not the baseline one
C23_Witness ==
    /\ pat_call.op = "find_equilibrium"
    /\ pat_call.err = "none"
    /\ pat.co_update
    /\ pat.co_eq # co_base
    /\ pat.u_propo_eq # RateFor(pat.c_blood_propo_eq, pat.propo_pk)
    /\ CoScaling(pat) = Unscaled

-----------------------------------------------------------------------------
(* Claims about the dynamics of Hemo_meca_PD_model, under SpecHemo *)

\* the derivatives of the two acute-tolerance states are 0 without drug and
\* a decay of the state with propofol or remifentanil
ToleranceDynamic(x, cp_propo, cp_remi, dx) ==
    IF cp_propo > 0 \/ cp_remi > 0
    THEN dx[4] = -Sgn(x[4]) /\ dx[5] = -Sgn(x[5])
    ELSE dx[4] = 0 /\ dx[5] = 0
ToleranceDynamicAt(x, cp_propo, cp_remi) ==
    ToleranceDynamic(x, cp_propo, cp_remi,
                     continuous_dynamic(x, <<cp_propo, cp_remi, 0, 0>>))

(* C24: over every step of the hemodynamic model, the derivative that
   continuous_dynamic gives the two acute-tolerance states is zero when the
   propofol and remifentanil concentrations are both zero and is the decay
   -k_ltde times the state when either concentration is positive. *)
C24_ToleranceDecaysWithAnyDrug ==
    [][ToleranceDynamicAt(hemo_pd.x,
                          Max2(hemo_pd.previous_cp_propo, hemo_call'.cp_propo),
                          Max2(hemo_pd.previous_cp_remi, hemo_call'.cp_remi))]_vars

-----------------------------------------------------------------------------
(* Claims about the parameters of BIS_model, under SpecBIS *)

BisParams(b) == <<b.c50p, b.c50r, b.gamma, b.beta, b.E0, b.Emax>>

(* C25: a call of compute_bis or of inverse_hill leaves every parameter of
   the BIS model (c50p, c50r, gamma, beta, E0, Emax) as it was, for every
   parameterization, Eleveld included. *)
C25_ComputeBisLeavesParameters ==
    [][bis_call'.op \in {"compute_bis", "inverse_hill"}
           => BisParams(bis_pd') = BisParams(bis_pd)]_vars

-----------------------------------------------------------------------------
(* Claims about the hemodynamic model inside a Patient, under SpecSim *)

(* C26: whatever the blood rates of the steps, the hemodynamic model of a
   Patient is stepped with the volume ratio 1 and never enters the
   blood-loss mode: flag_blood_loss stays false, and a step that brings
   norepinephrine into the plasma latches the norepinephrine mode, also
   during or after bleeding. *)
C26_NoBloodLossModeInPatient ==
    [][(/\ pat_call'.op = "one_step"
        /\ pat_call'.n = pat_call.n + 1
        /\ pat_call'.err = "none")
        => /\ ~pat.hemo_pd.flag_blood_loss
           /\ ~pat'.hemo_pd.flag_blood_loss
           /\ pat'.nore_pk.x[1] > 0 => pat'.hemo_pd.flag_nore_used]_vars

\* norepinephrine has latched its mode in a patient that has lost blood
C26_Witness ==
    /\ pat_call.op = "one_step"
    /\ pat_call.err = "none"
    /\ pat.blood_volume < blood_volume_init
    /\ pat.nore_pk.x[1] > 0
    /\ pat.hemo_pd.flag_nore_used
    /\ ~pat.hemo_pd.flag_blood_loss

-----------------------------------------------------------------------------
(* Two Hemo_meca_PD_model instances stepped with the same drug
   concentrations: SpecPair *)

\* the extreme concentrations, for remifentanil and norepinephrine
PairConcs == {0, MaxConc}

InitPair ==
    /\ hemo_pd = HemoInit
    /\ hemo_call = NoCall
    /\ bis_pd = BisInit("Bouillon")
    /\ bis_call = NoBisCall
    /\ pat = PatientInit(FALSE, TRUE)
    /\ pat_call = NoPatCall
    /\ tci = TciInit
    /\ tci_call = NoTciCall
    /\ pat_b = PatientInit(FALSE, TRUE)
    /\ rng = 0
    /\ met_bis = <<>>
    /\ met_call = NoMetCall
    /\ hemo_b = HemoInit

\* one_step of both instances: the same cp_propo and cp_remi, each its own
\* cp_nore and v_ratio
PairStepped(ra, rb) ==
    /\ hemo_pd' = ra.pd
    /\ hemo_call' = ra.call
    /\ hemo_b' = rb.pd
PairOneStep ==
    \E cp_propo \in Concs, cp_remi \in PairConcs :
        \E nore_a \in PairConcs, nore_b \in PairConcs, v_a \in VRatios, v_b \in VRatios :
            /\ PairStepped(Hemo_one_step(hemo_pd, cp_propo, cp_remi, nore_a, v_a),
                           Hemo_one_step(hemo_b, cp_propo, cp_remi, nore_b, v_b))
            /\ UNCHANGED <<bisVars, patVars, tciVars, twinVars, metVars>>

NextPair == PairOneStep

SpecPair == InitPair /\ [][NextPair]_vars

Unlatched(h) == ~h.flag_nore_used /\ ~h.flag_blood_loss

(* C27: two runs of one_step from the same initial state with the same
   propofol and remifentanil concentrations and different cp_nore and
   v_ratio have the same state x after every step, whatever their x_effect;
   and an instance with no latched mode has x_effect equal to x. *)
C27_DrugStateIndependent ==
    /\ hemo_pd.x = hemo_b.x
    /\ hemo_pd.previous_cp_propo = hemo_b.previous_cp_propo
    /\ hemo_pd.previous_cp_remi = hemo_b.previous_cp_remi
    /\ Unlatched(hemo_pd) => hemo_pd.x_effect = hemo_pd.x
    /\ Unlatched(hemo_b) => hemo_b.x_effect = hemo_b.x

\* the two runs have been in different modes and differ in x_effect
C27_Witness ==
    /\ hemo_call.branch = "nore"
    /\ hemo_b.flag_blood_loss
    /\ hemo_pd.x_effect # hemo_b.x_effect
    /\ hemo_pd.x # HemoX0

-----------------------------------------------------------------------------
(* Claim about the internal model of the TCI controller, under SpecTci *)

\* a one_step call of the controller has just returned
TciCalled == tci_call'.n = tci_call.n + 1

(* C28: in every one_step call the rate that advances the internal state x
   is the rate the call returns: the new x is Ad x + Bd * infusion_rate for
   the infusion_rate left in the controller, which is within
   [0, infusion_max] and whose conversion to ml/h is the value returned. *)
C28_StateAdvancedWithReturnedRate ==
    [][TciCalled
        => /\ tci'.x = TciPlus(TciAd(tci.x), tci'.infusion_rate)
           /\ tci'.infusion_rate \in 0..infusion_max
           /\ tci_call'.ret = (tci'.infusion_rate * 3600) \div drug_concentration]_vars

\* the maximal rate was held between two control instants and advanced x
C28_Witness ==
    /\ tci_call.n > 1
    /\ tci.time % control_time = 0
    /\ tci.infusion_rate = infusion_max
    /\ tci.x[target_id] > 0
    /\ tci_call.ret = maximum_rate

-----------------------------------------------------------------------------
(* Claims about recording and about initialized_at_given_input, under
   SpecEquilibrium *)

\* what a Patient simulates and publishes
Simulated(p) ==
    <<p.propo_pk.x, p.remi_pk.x, p.nore_pk.x,
      p.hemo_pd.x, p.hemo_pd.x_effect,
      p.hemo_pd.previous_cp_propo, p.hemo_pd.previous_cp_remi,
      p.bis, p.tol, p.tpr, p.sv, p.hr, p.map, p.co>>
\* the same Patient with the other value of save_data_bool
OtherRecording(p) == [p EXCEPT !.save_data_bool = ~p.save_data_bool]
\* the latest call, made with the other value of save_data_bool
CallWithOtherRecording(p, c) ==
    IF c.op = "initialized_at_given_input"
    THEN initialized_at_given_input(OtherRecording(p), c.args[1], c.args[2], c.args[3])
    ELSE IF c.op = "initialized_at_maintenance"
    THEN initialized_at_maintenance(OtherRecording(p), c.args[1][1], c.args[1][2],
                                    c.args[1][3], c.args[2][1], c.args[2][2])
    ELSE Patient_one_step(OtherRecording(p), c.args[1], c.args[2], c.args[3], c.args[4],
                          NoDist, FALSE, NoDist)
RecordingCalls == {"initialized_at_given_input", "initialized_at_maintenance", "one_step"}

(* C29: recording is observation only: a call of one_step,
   initialized_at_given_input or initialized_at_maintenance leaves the PK
   states, the hemodynamic state and the published outputs as the same call
   leaves them on a Patient with the other value of save_data_bool. *)
C29_RecordingIsObservationOnly ==
    [][(/\ pat_call'.op \in RecordingCalls
        /\ pat_call'.n = pat_call.n + 1
        /\ pat_call'.err = "none")
        => Simulated(pat') = Simulated(CallWithOtherRecording(pat, pat_call').p)]_vars

\* the PK models a call leaves, parameters and states
PkModels(p) == <<p.propo_pk, p.remi_pk, p.nore_pk>>

(* C30: initialized_at_given_input returns normally whatever was called
   before it, for either co_update, and what it leaves in the PK models does
   not depend on co_eq: the same call on a Patient whose co_eq is the
   baseline cardiac output leaves the same models. *)
C30_GivenInputIndependentOfCoEq ==
    [][(/\ pat_call'.op = "initialized_at_given_input"
        /\ pat_call'.n = pat_call.n + 1)
        => /\ pat_call'.err = "none"
           /\ PkModels(pat')
                = PkModels(initialized_at_given_input([pat EXCEPT !.co_eq = co_base],
                                                      pat_call'.args[1], pat_call'.args[2],
                                                      pat_call'.args[3]).p)]_vars

=============================================================================
